---- MODULE Spec2Model ----
(***************************************************************************)
(* State-machine model of the fade-playwright form test framework:         *)
(* the FormActions helpers (both the name/email/country version of         *)
(* src/pages/FormActions.ts and the full version), the document they act   *)
(* on through the automation library, and the test runner that drives      *)
(* them from tests/specs/form.spec.ts.                                     *)
(*                                                                         *)
(* Every `await` of a library call is one step: the action named after a   *)
(* helper's await point fires when the call in flight settles, runs the    *)
(* helper's code up to its next await and issues that call.                *)
(***************************************************************************)
EXTENDS FiniteSets, Integers, Sequences, TLC

VARIABLES
  mode,      \* document: state of every element a locator resolves to
  value,     \* document: current value of every input / select
  checked,   \* document: checked state of every checkbox / radio
  text,      \* document: text of every message element
  stack,     \* call stack of the running async helpers (innermost last)
  ret,       \* settlement of the helper that returned last
  inFlight,  \* library calls issued and not yet settled
  log,       \* history of the library calls issued since the top-level call
  fails,     \* history of the library calls that failed since the top-level call
  run        \* the driver: harness position or test-runner record

vars == <<mode, value, checked, text, stack, ret, inFlight, log, fails, run>>

dom == <<mode, value, checked, text>>

----------------------------------------------------------------------------
(* Bounds *)

\* number of ways the document may deviate from a well-behaved form
MaxFaults == 1

\* number of tests the runner executes one after the other
MaxTests == 2

----------------------------------------------------------------------------
(* Timeouts passed to the library *)

\* { timeout: 5000 } of the element waits, also the library's default for expect
ExpectTimeout == 5000

\* { timeout: 10000 } of the form-load, success-message and network-idle waits
LoadTimeout == 10000

----------------------------------------------------------------------------
(* The document *)

TextFields ==
  {"nameInput", "emailInput", "phoneInput", "messageTextarea", "companyInput"}

ValueControls == TextFields \cup {"roleSelect", "countryField"}

CheckControls ==
  {"agreeCheckbox", "newsletterCheckbox", "emailContactRadio", "phoneContactRadio"}

Buttons == {"submitButton", "resetButton", "registerButton"}

Widgets == {"countryDropdown", "countryOption", "formContainer"}

Messages ==
  {"successMessage", "errorMessage", "loadingIndicator",
   "nameFieldError", "emailFieldError", "phoneFieldError", "messageFieldError",
   "nameErrorMessage", "emailErrorMessage", "countryErrorMessage"}

Controls == TextFields \cup {"roleSelect"} \cup CheckControls \cup Buttons \cup Widgets

Locators == Controls \cup Messages

\* ok: attached, visible, enabled; absent: no element matches; hidden: attached
\* but not visible; disabled: visible but not enabled; rejects: the element
\* refuses the input it is given; alters: the page rewrites what is set.
Modes == {"ok", "absent", "hidden", "disabled", "rejects", "alters"}

\* the deviations that make a difference to an element of each kind (hidden
\* differs from absent only where a value is read)
FaultModes(c) ==
  IF c \in TextFields \cup {"roleSelect"}
    THEN {"absent", "hidden", "disabled", "rejects", "alters"}
  ELSE IF c \in CheckControls \cup {"resetButton"}
    THEN {"absent", "disabled", "alters"}
  ELSE IF c = "countryOption"
    THEN {"absent", "alters"}
  ELSE IF c = "formContainer"
    THEN {"absent"}
  ELSE {"absent", "disabled"}

\* values a test may pass for a text field, a role or a country
StrValues == {"", "a", "ab"}

\* texts a message element may show / a test may expect
Texts == {"", "a", "ab"}

Contains(t, s) ==
  \E i \in 0..(Len(t) - Len(s)) : SubSeq(t, i + 1, i + Len(s)) = s

StartsWith(t, s) == Len(s) <= Len(t) /\ SubSeq(t, 1, Len(s)) = s

\* JavaScript truthiness of a string
Truthy(s) == s # ""

BoolStr(b) == IF b THEN "true" ELSE "false"

----------------------------------------------------------------------------
(* The automation library, as the helpers observe it *)

IsVisible(l) == mode[l] \notin {"absent", "hidden"}

IsEnabled(l) == mode[l] \in {"ok", "rejects", "alters"}

\* an action (clear, fill, click, check, ...) waits for the element to be
\* visible and enabled and times out otherwise
Actionable(l) == IsVisible(l) /\ IsEnabled(l)

\* inputValue() needs an attached element, visible or not
Attached(l) == mode[l] # "absent"

\* the text of the error the library raises when call op on target fails
LibError(op, target) == op \o "(" \o target \o ") timed out"

\* `${error}` of an Error object
ErrStr(msg) == "Error: " \o msg

NoRet == [status |-> "none", err |-> "", val |-> ""]

Ok == [status |-> "ok", err |-> "", val |-> ""]

Raised(msg) == [status |-> "error", err |-> msg, val |-> ""]

----------------------------------------------------------------------------
(* Frames, calls and returns *)

NoData == [none |-> TRUE]

Frame(fn, pc, tgt) ==
  [fn |-> fn, pc |-> pc, tgt |-> tgt, val |-> "", flag |-> FALSE, name |-> "",
   idx |-> 0, base |-> Len(log), data |-> NoData, acc |-> NoData]

Top == stack[Len(stack)]

Running(fn, pc) == stack # <<>> /\ Top.fn = fn /\ Top.pc = pc /\ ret = NoRet

\* the page a frame's library calls go to: the helpers of FormActions use the
\* page their FormActions object was built from, a test body that uses
\* formLocators directly uses the page that object was built from
PageOf(f) == IF f.fn = "test" THEN run.fl ELSE run.fa

\* the time the library waits before it gives a call up
Timeout(f) ==
  IF \/ f.fn \in {"waitForFormToLoad", "verifyFormSuccess"} /\ f.pc = "toBeVisible"
     \/ f.pc = "waitForLoadState"
    THEN LoadTimeout
    ELSE ExpectTimeout

\* the library call frame f, at depth level of the stack, has in flight
CallRec(f, level) ==
  [op |-> f.pc, target |-> f.tgt, owner |-> level, page |-> PageOf(f),
   timeout |-> Timeout(f)]

CurCall == CallRec(Top, Len(stack))

\* a wait gives up only after the waits started with it that give up sooner
TimesOutFirst(call) == \A c \in inFlight : c.timeout >= call.timeout

\* the call in flight settles (failed: it raised and the helper caught it) and
\* the helper, now in frame f, issues its next call
IssueS(f, arg, failed) ==
  /\ stack' = [stack EXCEPT ![Len(stack)] = f]
  /\ inFlight' = (inFlight \ {CurCall}) \cup {CallRec(f, Len(stack))}
  /\ log' = Append(log, <<f.pc, f.tgt, arg>>)
  /\ fails' = IF failed THEN Append(fails, <<Top.pc, Top.tgt>>) ELSE fails
  /\ ret' = NoRet

IssueF(f, arg) == IssueS(f, arg, FALSE)

Issue(pc, tgt, arg) == IssueF([Top EXCEPT !.pc = pc, !.tgt = tgt], arg)

\* the call in flight settles (failed: it raised) and the helper returns r to
\* its caller
ReturnS(r, failed) ==
  /\ stack' = SubSeq(stack, 1, Len(stack) - 1)
  /\ inFlight' = inFlight \ {CurCall}
  /\ ret' = r
  /\ log' = log
  /\ fails' = IF failed THEN Append(fails, <<Top.pc, Top.tgt>>) ELSE fails

\* a helper that returns an error does so because the call in flight raised
Return(r) == ReturnS(r, r.status = "error")

\* a helper is invoked by the code running on stack st: its frame is pushed
\* and its first library call is issued
Invoke(st, f, arg) ==
  /\ stack' = Append(st, [f EXCEPT !.base = Len(log)])
  /\ inFlight' = (inFlight \ (IF stack = <<>> THEN {} ELSE {CurCall}))
                   \cup {CallRec(f, Len(st) + 1)}
  /\ log' = Append(log, <<f.pc, f.tgt, arg>>)
  /\ fails' = fails
  /\ ret' = NoRet

\* the library calls a frame has issued so far
Issued(f) == SubSeq(log, f.base + 1, Len(log))

----------------------------------------------------------------------------
(* FormActions.fillField *)

fillFieldError(fieldName, val, error) ==
  "Failed to fill " \o fieldName \o " field with value \"" \o val \o "\": "
    \o ErrStr(error)

fillFieldFrame(locator, val, fieldName) ==
  [Frame("fillField", "toBeVisible", locator) EXCEPT !.val = val, !.name = fieldName]

\* fillField that waits again when the field did not become visible
fillField_toBeVisible_retrying ==
  /\ Running("fillField", "toBeVisible")
  /\ IF IsVisible(Top.tgt)
       THEN Issue("clear", Top.tgt, "")
       ELSE /\ stack' = [stack EXCEPT ![Len(stack)] = [Top EXCEPT !.idx = 1 - Top.idx]]
            /\ UNCHANGED <<ret, inFlight, log, fails>>
  /\ UNCHANGED <<dom, run>>

\* fillField that clears the field before it looks whether it is visible
fillField_toBeVisible_clearing ==
  /\ Running("fillField", "toBeVisible")
  /\ value' = IF Attached(Top.tgt) THEN [value EXCEPT ![Top.tgt] = ""] ELSE value
  /\ IF IsVisible(Top.tgt)
       THEN Issue("clear", Top.tgt, "")
       ELSE Return(Raised(fillFieldError(Top.name, Top.val, LibError("toBeVisible", Top.tgt))))
  /\ UNCHANGED <<mode, checked, text, run>>

fillField_toBeVisible ==
  /\ Running("fillField", "toBeVisible")
  /\ IF IsVisible(Top.tgt)
       THEN Issue("clear", Top.tgt, "")
       ELSE Return(Raised(fillFieldError(Top.name, Top.val, LibError("toBeVisible", Top.tgt))))
  /\ UNCHANGED <<dom, run>>

\* fillField whose clear step is outside the try block
fillField_clear_unwrapped ==
  /\ Running("fillField", "clear")
  /\ IF Actionable(Top.tgt)
       THEN /\ value' = [value EXCEPT ![Top.tgt] = ""]
            /\ Issue("fill", Top.tgt, Top.val)
       ELSE /\ value' = value
            /\ Return(Raised(LibError("clear", Top.tgt)))
  /\ UNCHANGED <<mode, checked, text, run>>

fillField_clear ==
  /\ Running("fillField", "clear")
  /\ IF Actionable(Top.tgt)
       THEN /\ value' = [value EXCEPT ![Top.tgt] = ""]
            /\ Issue("fill", Top.tgt, Top.val)
       ELSE /\ value' = value
            /\ Return(Raised(fillFieldError(Top.name, Top.val, LibError("clear", Top.tgt))))
  /\ UNCHANGED <<mode, checked, text, run>>

fillField_fill ==
  /\ Running("fillField", "fill")
  /\ IF Actionable(Top.tgt) /\ mode[Top.tgt] # "rejects"
       THEN /\ IF mode[Top.tgt] = "alters"
                 THEN \E w \in StrValues \ {Top.val} :
                        value' = [value EXCEPT ![Top.tgt] = w]
                 ELSE value' = [value EXCEPT ![Top.tgt] = Top.val]
            /\ Issue("toHaveValue", Top.tgt, Top.val)
       ELSE /\ value' = value
            /\ Return(Raised(fillFieldError(Top.name, Top.val, LibError("fill", Top.tgt))))
  /\ UNCHANGED <<mode, checked, text, run>>

\* fillField without its final value assertion
fillField_toHaveValue_unchecked ==
  /\ Running("fillField", "toHaveValue")
  /\ Return(Ok)
  /\ UNCHANGED <<dom, run>>

fillField_toHaveValue ==
  /\ Running("fillField", "toHaveValue")
  /\ IF Attached(Top.tgt) /\ value[Top.tgt] = Top.val
       THEN Return(Ok)
       ELSE Return(Raised(fillFieldError(Top.name, Top.val, LibError("toHaveValue", Top.tgt))))
  /\ UNCHANGED <<dom, run>>

fillName(name) == fillFieldFrame("nameInput", name, "name")

fillEmail(email) == fillFieldFrame("emailInput", email, "email")

fillPhone(phone) == fillFieldFrame("phoneInput", phone, "phone")

fillMessage(message) == fillFieldFrame("messageTextarea", message, "message")

fillCompany(company) == fillFieldFrame("companyInput", company, "company")

----------------------------------------------------------------------------
(* FormActions.selectRole, setCheckbox, selectContactMethod (full version) *)

selectRoleError(role, error) ==
  "Failed to select role \"" \o role \o "\": " \o ErrStr(error)

selectRole(role) ==
  [Frame("selectRole", "toBeVisible", "roleSelect") EXCEPT !.val = role]

selectRole_toBeVisible ==
  /\ Running("selectRole", "toBeVisible")
  /\ IF IsVisible(Top.tgt)
       THEN Issue("selectOption", Top.tgt, Top.val)
       ELSE Return(Raised(selectRoleError(Top.val, LibError("toBeVisible", Top.tgt))))
  /\ UNCHANGED <<dom, run>>

selectRole_selectOption ==
  /\ Running("selectRole", "selectOption")
  /\ IF Actionable(Top.tgt) /\ mode[Top.tgt] # "rejects"
       THEN /\ IF mode[Top.tgt] = "alters"
                 THEN \E w \in StrValues \ {Top.val} :
                        value' = [value EXCEPT ![Top.tgt] = w]
                 ELSE value' = [value EXCEPT ![Top.tgt] = Top.val]
            /\ Issue("toHaveValue", Top.tgt, Top.val)
       ELSE /\ value' = value
            /\ Return(Raised(selectRoleError(Top.val, LibError("selectOption", Top.tgt))))
  /\ UNCHANGED <<mode, checked, text, run>>

selectRole_toHaveValue ==
  /\ Running("selectRole", "toHaveValue")
  /\ IF Attached(Top.tgt) /\ value[Top.tgt] = Top.val
       THEN Return(Ok)
       ELSE Return(Raised(selectRoleError(Top.val, LibError("toHaveValue", Top.tgt))))
  /\ UNCHANGED <<dom, run>>

setCheckboxError(fieldName, isChecked, error) ==
  "Failed to set " \o fieldName \o " checkbox to " \o BoolStr(isChecked) \o ": "
    \o ErrStr(error)

setCheckbox(locator, isChecked, fieldName) ==
  [Frame("setCheckbox", "toBeVisible", locator) EXCEPT
     !.flag = isChecked, !.name = fieldName]

setCheckbox_toBeVisible ==
  /\ Running("setCheckbox", "toBeVisible")
  /\ IF IsVisible(Top.tgt)
       THEN Issue("setChecked", Top.tgt, BoolStr(Top.flag))
       ELSE Return(Raised(setCheckboxError(Top.name, Top.flag, LibError("toBeVisible", Top.tgt))))
  /\ UNCHANGED <<dom, run>>

\* setCheckbox whose setChecked step is outside the try block
setCheckbox_setChecked_unwrapped ==
  /\ Running("setCheckbox", "setChecked")
  /\ IF Actionable(Top.tgt) /\ mode[Top.tgt] # "rejects"
       THEN /\ checked' = [checked EXCEPT ![Top.tgt] =
                             IF mode[Top.tgt] = "alters" THEN ~Top.flag ELSE Top.flag]
            /\ Issue(IF Top.flag THEN "toBeChecked" ELSE "notToBeChecked", Top.tgt, "")
       ELSE /\ checked' = checked
            /\ Return(Raised(LibError("setChecked", Top.tgt)))
  /\ UNCHANGED <<mode, value, text, run>>

setCheckbox_setChecked ==
  /\ Running("setCheckbox", "setChecked")
  /\ IF Actionable(Top.tgt) /\ mode[Top.tgt] # "rejects"
       THEN /\ checked' = [checked EXCEPT ![Top.tgt] =
                             IF mode[Top.tgt] = "alters" THEN ~Top.flag ELSE Top.flag]
            /\ Issue(IF Top.flag THEN "toBeChecked" ELSE "notToBeChecked", Top.tgt, "")
       ELSE /\ checked' = checked
            /\ Return(Raised(setCheckboxError(Top.name, Top.flag, LibError("setChecked", Top.tgt))))
  /\ UNCHANGED <<mode, value, text, run>>

setCheckbox_toBeChecked ==
  /\ Running("setCheckbox", "toBeChecked")
  /\ IF Attached(Top.tgt) /\ checked[Top.tgt]
       THEN Return(Ok)
       ELSE Return(Raised(setCheckboxError(Top.name, Top.flag, LibError("toBeChecked", Top.tgt))))
  /\ UNCHANGED <<dom, run>>

setCheckbox_notToBeChecked ==
  /\ Running("setCheckbox", "notToBeChecked")
  /\ IF Attached(Top.tgt) /\ ~checked[Top.tgt]
       THEN Return(Ok)
       ELSE Return(Raised(setCheckboxError(Top.name, Top.flag, LibError("notToBeChecked", Top.tgt))))
  /\ UNCHANGED <<dom, run>>

setAgreeToTerms(isChecked) == setCheckbox("agreeCheckbox", isChecked, "agreement")

setNewsletterSubscription(isChecked) ==
  setCheckbox("newsletterCheckbox", isChecked, "newsletter")

ContactMethods == {"email", "phone"}

selectContactMethodError(method, error) ==
  "Failed to select contact method \"" \o method \o "\": " \o ErrStr(error)

radioLocator(method) ==
  IF method = "email" THEN "emailContactRadio" ELSE "phoneContactRadio"

selectContactMethod(method) ==
  [Frame("selectContactMethod", "toBeVisible", radioLocator(method)) EXCEPT
     !.val = method]

selectContactMethod_toBeVisible ==
  /\ Running("selectContactMethod", "toBeVisible")
  /\ IF IsVisible(Top.tgt)
       THEN Issue("check", Top.tgt, "")
       ELSE Return(Raised(selectContactMethodError(Top.val, LibError("toBeVisible", Top.tgt))))
  /\ UNCHANGED <<dom, run>>

OtherRadio(r) ==
  IF r = "emailContactRadio" THEN "phoneContactRadio" ELSE "emailContactRadio"

selectContactMethod_check ==
  /\ Running("selectContactMethod", "check")
  /\ IF Actionable(Top.tgt) /\ mode[Top.tgt] # "rejects"
       THEN /\ checked' = IF mode[Top.tgt] = "alters"
                            THEN [checked EXCEPT ![Top.tgt] = FALSE]
                            ELSE [checked EXCEPT ![Top.tgt] = TRUE,
                                                 ![OtherRadio(Top.tgt)] = FALSE]
            /\ Issue("toBeChecked", Top.tgt, "")
       ELSE /\ checked' = checked
            /\ Return(Raised(selectContactMethodError(Top.val, LibError("check", Top.tgt))))
  /\ UNCHANGED <<mode, value, text, run>>

selectContactMethod_toBeChecked ==
  /\ Running("selectContactMethod", "toBeChecked")
  /\ IF Attached(Top.tgt) /\ checked[Top.tgt]
       THEN Return(Ok)
       ELSE Return(Raised(selectContactMethodError(Top.val, LibError("toBeChecked", Top.tgt))))
  /\ UNCHANGED <<dom, run>>

----------------------------------------------------------------------------
(* FormActions.selectCountry (name/email/country version) *)

selectCountry(country) ==
  [Frame("selectCountry", "toBeVisible", "countryDropdown") EXCEPT !.val = country]

selectCountry_toBeVisible ==
  /\ Running("selectCountry", "toBeVisible")
  /\ IF IsVisible(Top.tgt)
       THEN Issue("click", "countryDropdown", "")
       ELSE Return(Raised(LibError("toBeVisible", Top.tgt)))
  /\ UNCHANGED <<dom, run>>

selectCountry_clickDropdown ==
  /\ Running("selectCountry", "click")
  /\ Top.tgt = "countryDropdown"
  /\ IF Actionable(Top.tgt)
       THEN Issue("click", "countryOption", Top.val)
       ELSE Return(Raised(LibError("click", Top.tgt)))
  /\ UNCHANGED <<dom, run>>

selectCountry_clickOption ==
  /\ Running("selectCountry", "click")
  /\ Top.tgt = "countryOption"
  /\ IF Actionable(Top.tgt) /\ mode[Top.tgt] # "rejects"
       THEN /\ IF mode[Top.tgt] = "alters"
                 THEN \E w \in StrValues \ {Top.val} :
                        value' = [value EXCEPT !["countryField"] = w]
                 ELSE value' = [value EXCEPT !["countryField"] = Top.val]
            /\ Return(Ok)
       ELSE /\ value' = value
            /\ Return(Raised(LibError("click", Top.tgt)))
  /\ UNCHANGED <<mode, checked, text, run>>

----------------------------------------------------------------------------
(* FormActions.submitForm and resetForm *)

submitFormError(error) == "Failed to submit form: " \o ErrStr(error)

\* button is registerButton in FormActions.ts and submitButton in the full
\* version
submitForm(button) ==
  [Frame("submitForm", "toBeVisible", button) EXCEPT !.name = button]

submitForm_toBeVisible ==
  /\ Running("submitForm", "toBeVisible")
  /\ IF IsVisible(Top.tgt)
       THEN Issue("toBeEnabled", Top.tgt, "")
       ELSE Return(Raised(submitFormError(LibError("toBeVisible", Top.tgt))))
  /\ UNCHANGED <<dom, run>>

\* submitForm that clicks without waiting for the button to be enabled
submitForm_toBeEnabled_skipped ==
  /\ Running("submitForm", "toBeEnabled")
  /\ Issue("click", Top.tgt, "")
  /\ UNCHANGED <<dom, run>>

submitForm_toBeEnabled ==
  /\ Running("submitForm", "toBeEnabled")
  /\ IF Attached(Top.tgt) /\ IsEnabled(Top.tgt)
       THEN Issue("click", Top.tgt, "")
       ELSE Return(Raised(submitFormError(LibError("toBeEnabled", Top.tgt))))
  /\ UNCHANGED <<dom, run>>

\* the page answers a submission by showing one of its messages (or nothing)
PageResponds(m, t) ==
  /\ mode' = [mode EXCEPT ![m] = "ok"]
  /\ text' = [text EXCEPT ![m] = t]

submitForm_click ==
  /\ Running("submitForm", "click")
  /\ IF Actionable(Top.tgt)
       THEN /\ \/ UNCHANGED <<mode, text>>
               \/ \E m \in Messages, t \in Texts : PageResponds(m, t)
            /\ Issue("waitForLoadState", "page", "networkidle")
       ELSE /\ UNCHANGED <<mode, text>>
            /\ Return(Raised(submitFormError(LibError("click", Top.tgt))))
  /\ UNCHANGED <<value, checked, run>>

submitForm_waitForLoadState ==
  /\ Running("submitForm", "waitForLoadState")
  /\ \E idle \in BOOLEAN :
       IF idle
         THEN Return(Ok)
         ELSE Return(Raised(submitFormError(LibError("waitForLoadState", "page"))))
  /\ UNCHANGED <<dom, run>>

resetFormError(error) == "Failed to reset form: " \o ErrStr(error)

resetForm == Frame("resetForm", "toBeVisible", "resetButton")

resetForm_toBeVisible ==
  /\ Running("resetForm", "toBeVisible")
  /\ IF IsVisible(Top.tgt)
       THEN Issue("click", Top.tgt, "")
       ELSE Return(Raised(resetFormError(LibError("toBeVisible", Top.tgt))))
  /\ UNCHANGED <<dom, run>>

\* what the document holds after a reload or a working reset button
EmptyValues == [c \in ValueControls |-> ""]

Unchecked == [c \in CheckControls |-> FALSE]

resetForm_click ==
  /\ Running("resetForm", "click")
  /\ IF Actionable(Top.tgt)
       THEN /\ IF mode[Top.tgt] = "alters"
                 THEN UNCHANGED <<value, checked>>
                 ELSE value' = EmptyValues /\ checked' = Unchecked
            /\ Return(Ok)
       ELSE /\ UNCHANGED <<value, checked>>
            /\ Return(Raised(resetFormError(LibError("click", Top.tgt))))
  /\ UNCHANGED <<mode, text, run>>

----------------------------------------------------------------------------
(* FormActions.navigateToForm and waitForFormToLoad *)

\* full = TRUE: the version that also waits for the loading indicator
waitForFormToLoad(full) ==
  [Frame("waitForFormToLoad", "toBeVisible", "formContainer") EXCEPT !.flag = full]

navigateToForm(full) ==
  [Frame("navigateToForm", "goto", "page") EXCEPT !.flag = full]

\* navigateToForm that rebinds the page field of its FormActions object
navigateToForm_goto_rebinding ==
  /\ Running("navigateToForm", "goto")
  /\ value' = EmptyValues
  /\ checked' = Unchecked
  /\ mode' = [l \in Locators |-> IF l \in Messages THEN "absent" ELSE mode[l]]
  /\ text' = [m \in Messages |-> ""]
  /\ IssueF([waitForFormToLoad(Top.flag) EXCEPT !.base = Top.base], "")
  /\ run' = [run EXCEPT !.fa = 0]

navigateToForm_goto ==
  /\ Running("navigateToForm", "goto")
  /\ \E loaded \in BOOLEAN :
       IF loaded
         THEN /\ value' = EmptyValues
              /\ checked' = Unchecked
              /\ mode' = [l \in Locators |-> IF l \in Messages THEN "absent" ELSE mode[l]]
              /\ text' = [m \in Messages |-> ""]
              /\ IssueF([waitForFormToLoad(Top.flag) EXCEPT !.base = Top.base], "")
         ELSE /\ UNCHANGED dom
              /\ Return(Raised(LibError("goto", "page")))
  /\ UNCHANGED run

\* waitForFormToLoad goes on whatever toBeVisible found
waitForFormToLoad_toBeVisible_lenient ==
  /\ Running("waitForFormToLoad", "toBeVisible")
  /\ IF Top.flag
       THEN IssueS([Top EXCEPT !.pc = "toBeHidden", !.tgt = "loadingIndicator"], "",
                   ~IsVisible(Top.tgt))
       ELSE ReturnS(Ok, ~IsVisible(Top.tgt))
  /\ UNCHANGED <<dom, run>>

waitForFormToLoad_toBeVisible ==
  /\ Running("waitForFormToLoad", "toBeVisible")
  /\ IF IsVisible(Top.tgt)
       THEN IF Top.flag
              THEN Issue("toBeHidden", "loadingIndicator", "")
              ELSE Return(Ok)
       ELSE Return(Raised(LibError("toBeVisible", Top.tgt)))
  /\ UNCHANGED <<dom, run>>

\* .catch(() => {}): the outcome of toBeHidden is dropped
waitForFormToLoad_toBeHidden ==
  /\ Running("waitForFormToLoad", "toBeHidden")
  /\ ReturnS(Ok, IsVisible(Top.tgt))
  /\ UNCHANGED <<dom, run>>

----------------------------------------------------------------------------
(* FormActions.clearAllFields *)

ClearFieldsSimple == <<"nameInput", "emailInput">>

ClearFieldsFull ==
  <<"nameInput", "emailInput", "phoneInput", "messageTextarea", "companyInput">>

clearAllFields(full) ==
  LET fields == IF full THEN ClearFieldsFull ELSE ClearFieldsSimple
  IN  [Frame("clearAllFields", "clear", fields[1]) EXCEPT
         !.idx = 1, !.data = fields, !.flag = full]

\* clearAllFields without the catch on each clear
clearAllFields_clear_uncaught ==
  /\ Running("clearAllFields", "clear")
  /\ value' = IF Actionable(Top.tgt) THEN [value EXCEPT ![Top.tgt] = ""] ELSE value
  /\ IF ~Actionable(Top.tgt)
       THEN Return(Raised(LibError("clear", Top.tgt)))
       ELSE IF Top.idx < Len(Top.data)
              THEN IssueS([Top EXCEPT !.idx = Top.idx + 1, !.tgt = Top.data[Top.idx + 1]],
                          "", FALSE)
              ELSE ReturnS(Ok, FALSE)
  /\ UNCHANGED <<mode, checked, text, run>>

clearAllFields_clear ==
  /\ Running("clearAllFields", "clear")
  /\ value' = IF Actionable(Top.tgt) THEN [value EXCEPT ![Top.tgt] = ""] ELSE value
  /\ IF Top.idx < Len(Top.data)
       THEN IssueS([Top EXCEPT !.idx = Top.idx + 1, !.tgt = Top.data[Top.idx + 1]],
                   "", ~Actionable(Top.tgt))
       ELSE ReturnS(Ok, ~Actionable(Top.tgt))
  /\ UNCHANGED <<mode, checked, text, run>>

----------------------------------------------------------------------------
(* FormActions.verifyFieldError and verifyFormSuccess *)

FieldsSimple == {"name", "email", "country"}

FieldsFull == {"name", "email", "phone", "message"}

errorLocatorSimple(field) ==
  CASE field = "name" -> "nameErrorMessage"
    [] field = "email" -> "emailErrorMessage"
    [] field = "country" -> "countryErrorMessage"

errorLocatorFull(field) ==
  CASE field = "name" -> "nameFieldError"
    [] field = "email" -> "emailFieldError"
    [] field = "phone" -> "phoneFieldError"
    [] field = "message" -> "messageFieldError"

\* given = FALSE: expectedMessage was not passed (undefined)
verifyFieldError(full, field, given, expectedMessage) ==
  [Frame("verifyFieldError", "toBeVisible",
         IF full THEN errorLocatorFull(field) ELSE errorLocatorSimple(field)) EXCEPT
     !.name = field, !.flag = given, !.val = expectedMessage]

\* verifyFieldError that never looks at the text
verifyFieldError_toBeVisible_only ==
  /\ Running("verifyFieldError", "toBeVisible")
  /\ IF IsVisible(Top.tgt)
       THEN Return(Ok)
       ELSE Return(Raised(LibError("toBeVisible", Top.tgt)))
  /\ UNCHANGED <<dom, run>>

verifyFieldError_toBeVisible ==
  /\ Running("verifyFieldError", "toBeVisible")
  /\ IF IsVisible(Top.tgt)
       THEN IF Top.flag /\ Truthy(Top.val)
              THEN Issue("toContainText", Top.tgt, Top.val)
              ELSE Return(Ok)
       ELSE Return(Raised(LibError("toBeVisible", Top.tgt)))
  /\ UNCHANGED <<dom, run>>

verifyFieldError_toContainText ==
  /\ Running("verifyFieldError", "toContainText")
  /\ IF Attached(Top.tgt) /\ Contains(text[Top.tgt], Top.val)
       THEN Return(Ok)
       ELSE Return(Raised(LibError("toContainText", Top.tgt)))
  /\ UNCHANGED <<dom, run>>

verifyFormSuccess(given, expectedMessage) ==
  [Frame("verifyFormSuccess", "toBeVisible", "successMessage") EXCEPT
     !.flag = given, !.val = expectedMessage]

verifyFormSuccess_toBeVisible ==
  /\ Running("verifyFormSuccess", "toBeVisible")
  /\ IsVisible(Top.tgt) \/ TimesOutFirst(CurCall)
  /\ IF IsVisible(Top.tgt)
       THEN IF Top.flag /\ Truthy(Top.val)
              THEN Issue("toContainText", Top.tgt, Top.val)
              ELSE Return(Ok)
       ELSE Return(Raised(LibError("toBeVisible", Top.tgt)))
  /\ UNCHANGED <<dom, run>>

verifyFormSuccess_toContainText ==
  /\ Running("verifyFormSuccess", "toContainText")
  /\ IF Attached(Top.tgt) /\ Contains(text[Top.tgt], Top.val)
       THEN Return(Ok)
       ELSE Return(Raised(LibError("toContainText", Top.tgt)))
  /\ UNCHANGED <<dom, run>>

----------------------------------------------------------------------------
(* FormActions.verifyValidationErrors *)

\* given = FALSE: expectedErrors was not passed (undefined)
verifyValidationErrors(given, expectedErrors) ==
  [Frame("verifyValidationErrors", "toBeVisible", "errorMessage") EXCEPT
     !.flag = given, !.data = expectedErrors]

verifyValidationErrors_toBeVisible ==
  /\ Running("verifyValidationErrors", "toBeVisible")
  /\ IF IsVisible(Top.tgt)
       THEN IF Top.flag /\ Len(Top.data) > 0
              THEN IssueF([Top EXCEPT !.pc = "toContainText", !.idx = 1], Top.data[1])
              ELSE Return(Ok)
       ELSE Return(Raised(LibError("toBeVisible", Top.tgt)))
  /\ UNCHANGED <<dom, run>>

\* verifyValidationErrors that looks for the first expected string only
verifyValidationErrors_toContainText_firstOnly ==
  /\ Running("verifyValidationErrors", "toContainText")
  /\ IF Attached(Top.tgt) /\ Contains(text[Top.tgt], Top.data[Top.idx])
       THEN Return(Ok)
       ELSE Return(Raised(LibError("toContainText", Top.tgt)))
  /\ UNCHANGED <<dom, run>>

\* for (const expectedError of expectedErrors) await expect(...).toContainText(...)
verifyValidationErrors_toContainText ==
  /\ Running("verifyValidationErrors", "toContainText")
  /\ IF Attached(Top.tgt) /\ Contains(text[Top.tgt], Top.data[Top.idx])
       THEN IF Top.idx < Len(Top.data)
              THEN IssueF([Top EXCEPT !.idx = Top.idx + 1], Top.data[Top.idx + 1])
              ELSE Return(Ok)
       ELSE Return(Raised(LibError("toContainText", Top.tgt)))
  /\ UNCHANGED <<dom, run>>

----------------------------------------------------------------------------
(* FormActions.getCurrentFormValues *)

ValueKeys ==
  << <<"name", "nameInput">>, <<"email", "emailInput">>, <<"phone", "phoneInput">>,
     <<"message", "messageTextarea">>, <<"company", "companyInput">>,
     <<"role", "roleSelect">> >>

EmptyRecord == [k \in {} |-> ""]

getCurrentFormValues ==
  [Frame("getCurrentFormValues", "inputValue", ValueKeys[1][2]) EXCEPT
     !.idx = 1, !.acc = EmptyRecord]

\* getCurrentFormValues without the catch around each read
getCurrentFormValues_inputValue_uncaught ==
  /\ Running("getCurrentFormValues", "inputValue")
  /\ LET values == Top.acc @@ (ValueKeys[Top.idx][1] :> value[Top.tgt])
     IN  IF ~Attached(Top.tgt)
           THEN Return(Raised(LibError("inputValue", Top.tgt)))
           ELSE IF Top.idx < Len(ValueKeys)
                  THEN IssueF([Top EXCEPT !.idx = Top.idx + 1,
                                          !.tgt = ValueKeys[Top.idx + 1][2],
                                          !.acc = values], "")
                  ELSE Return([status |-> "ok", err |-> "", val |-> values])
  /\ UNCHANGED <<dom, run>>

getCurrentFormValues_inputValue ==
  /\ Running("getCurrentFormValues", "inputValue")
  /\ LET read == IF Attached(Top.tgt) THEN value[Top.tgt] ELSE ""
         values == Top.acc @@ (ValueKeys[Top.idx][1] :> read)
     IN  IF Top.idx < Len(ValueKeys)
           THEN IssueS([Top EXCEPT !.idx = Top.idx + 1,
                                   !.tgt = ValueKeys[Top.idx + 1][2],
                                   !.acc = values], "", ~Attached(Top.tgt))
           ELSE ReturnS([status |-> "ok", err |-> "", val |-> values],
                        ~Attached(Top.tgt))
  /\ UNCHANGED <<dom, run>>

----------------------------------------------------------------------------
(* FormActions.verifyFormIsEmpty *)

\* expect(value, `${field} field should be empty`).toBe('')
notEmptyError(field) == field \o " field should be empty"

\* verifyFormIsEmpty is called by the code running on stack st
verifyFormIsEmpty(st) ==
  Invoke(Append(st, Frame("verifyFormIsEmpty", "await", "")), getCurrentFormValues, "")

\* the first entry of values, in the order they were read, that is not ''
FirstNotEmpty(values) ==
  LET filled == {i \in 1..Len(ValueKeys) : values[ValueKeys[i][1]] # ""}
  IN  IF filled = {} THEN 0 ELSE CHOOSE i \in filled : \A j \in filled : i <= j

\* verifyFormIsEmpty that does not look at the values read
verifyFormIsEmpty_await_unchecked ==
  /\ stack # <<>> /\ Top.fn = "verifyFormIsEmpty" /\ ret # NoRet
  /\ stack' = SubSeq(stack, 1, Len(stack) - 1)
  /\ ret' = Ok
  /\ UNCHANGED <<dom, run, inFlight, log, fails>>

\* getCurrentFormValues has returned the values (it never raises)
verifyFormIsEmpty_await ==
  /\ stack # <<>> /\ Top.fn = "verifyFormIsEmpty" /\ ret # NoRet
  /\ stack' = SubSeq(stack, 1, Len(stack) - 1)
  /\ LET i == FirstNotEmpty(ret.val)
     IN  ret' = IF i = 0 THEN Ok ELSE Raised(notEmptyError(ValueKeys[i][1]))
  /\ UNCHANGED <<dom, run, inFlight, log, fails>>

----------------------------------------------------------------------------
(* FormActions.verifyFormData and FormPage.verifyFormData *)

\* the control behind a key of the form data
FieldOf(k) ==
  CASE k = "name" -> "nameInput"
    [] k = "email" -> "emailInput"
    [] k = "phone" -> "phoneInput"
    [] k = "message" -> "messageTextarea"
    [] k = "company" -> "companyInput"
    [] k = "role" -> "roleSelect"
    [] k = "country" -> "countryField"
    [] k = "agreeToTerms" -> "agreeCheckbox"
    [] k = "subscribeNewsletter" -> "newsletterCheckbox"

\* expectedData is the sequence Object.entries gives: <<field, expectedValue>>
\* expect(currentValues[field], `${field} field value mismatch`).toBe(expectedValue)
mismatchError(field) == field \o " field value mismatch"

\* verifyFormData is called by the code running on stack st
verifyFormData(st, expectedData) ==
  Invoke(Append(st, [Frame("verifyFormData", "await", "") EXCEPT !.data = expectedData]),
         getCurrentFormValues, "")

\* the first entry whose field currentValues lacks (it reads undefined) or
\* holds with another value, 0 when there is none
FirstMismatch(currentValues, expectedData) ==
  LET off == {i \in 1..Len(expectedData) :
                \/ expectedData[i][1] \notin DOMAIN currentValues
                \/ currentValues[expectedData[i][1]] # expectedData[i][2]}
  IN  IF off = {} THEN 0 ELSE CHOOSE i \in off : \A j \in off : i <= j

\* verifyFormData that compares the first entry only
verifyFormData_await_firstOnly ==
  /\ stack # <<>> /\ Top.fn = "verifyFormData" /\ ret # NoRet
  /\ stack' = SubSeq(stack, 1, Len(stack) - 1)
  /\ LET i == FirstMismatch(ret.val, SubSeq(Top.data, 1, 1))
     IN  ret' = IF i = 0 THEN Ok ELSE Raised(mismatchError(Top.data[i][1]))
  /\ UNCHANGED <<dom, run, inFlight, log, fails>>

\* getCurrentFormValues has returned the values (it never raises)
verifyFormData_await ==
  /\ stack # <<>> /\ Top.fn = "verifyFormData" /\ ret # NoRet
  /\ stack' = SubSeq(stack, 1, Len(stack) - 1)
  /\ LET i == FirstMismatch(ret.val, Top.data)
     IN  ret' = IF i = 0 THEN Ok ELSE Raised(mismatchError(Top.data[i][1]))
  /\ UNCHANGED <<dom, run, inFlight, log, fails>>

\* the fields FormPage.verifyFormData has a case for
PageCases == {"name", "email", "phone", "message", "company", "role"}

\* the first entry after position i the switch has a case for, 0 when none
NextCase(expectedData, i) ==
  LET later == {j \in (i + 1)..Len(expectedData) : expectedData[j][1] \in PageCases}
  IN  IF later = {} THEN 0 ELSE CHOOSE j \in later : \A k \in later : j <= k

\* the frame of FormPage.verifyFormData at its entry i (i > 0)
FormPage_verifyFormData(expectedData, i) ==
  [Frame("FormPage_verifyFormData", "toHaveValue", FieldOf(expectedData[i][1])) EXCEPT
     !.data = expectedData, !.idx = i, !.val = expectedData[i][2]]

FormPage_verifyFormData_toHaveValue ==
  /\ Running("FormPage_verifyFormData", "toHaveValue")
  /\ IF Attached(Top.tgt) /\ value[Top.tgt] = Top.val
       THEN LET j == NextCase(Top.data, Top.idx)
            IN  IF j = 0
                  THEN Return(Ok)
                  ELSE IssueF([FormPage_verifyFormData(Top.data, j) EXCEPT
                                 !.base = Top.base], Top.data[j][2])
       ELSE Return(Raised(LibError("toHaveValue", Top.tgt)))
  /\ UNCHANGED <<dom, run>>

----------------------------------------------------------------------------
(* FormActions.fillCompleteForm *)

OrderSimple == <<"name", "email", "country">>

OrderFull ==
  <<"name", "email", "phone", "message", "company", "role",
    "agreeToTerms", "subscribeNewsletter", "contactMethod">>

FlagKeys == {"agreeToTerms", "subscribeNewsletter"}

\* the condition guarding the step for key k: truthiness for the strings,
\* `!== undefined` for the two flags
Applies(k, formData) ==
  /\ k \in DOMAIN formData
  /\ k \in FlagKeys \/ Truthy(formData[k])

FieldHelper(k, formData) ==
  CASE k = "name" -> fillName(formData[k])
    [] k = "email" -> fillEmail(formData[k])
    [] k = "phone" -> fillPhone(formData[k])
    [] k = "message" -> fillMessage(formData[k])
    [] k = "company" -> fillCompany(formData[k])
    [] k = "role" -> selectRole(formData[k])
    [] k = "agreeToTerms" -> setAgreeToTerms(formData[k])
    [] k = "subscribeNewsletter" -> setNewsletterSubscription(formData[k])
    [] k = "contactMethod" -> selectContactMethod(formData[k])
    [] k = "country" -> selectCountry(formData[k])

\* the steps taken from the bottom of the method upwards
NextField_fromLast(order, formData, i) ==
  LET later == {j \in (i + 1)..Len(order) : Applies(order[j], formData)}
  IN  IF later = {} THEN 0 ELSE CHOOSE j \in later : \A k \in later : j >= k

\* the first step after position i whose guard holds, 0 when there is none
NextField(order, formData, i) ==
  LET later == {j \in (i + 1)..Len(order) : Applies(order[j], formData)}
  IN  IF later = {} THEN 0 ELSE CHOOSE j \in later : \A k \in later : j <= k

fillCompleteFormFrame(full, formData, j) ==
  [Frame("fillCompleteForm", "await", "") EXCEPT
     !.flag = full, !.data = formData, !.idx = j]

Order(full) == IF full THEN OrderFull ELSE OrderSimple

\* fillCompleteForm is called by the code running on stack st
fillCompleteForm(st, full, formData) ==
  LET j == NextField(Order(full), formData, 0)
  IN  IF j = 0
        THEN /\ stack' = st
             /\ ret' = Ok
             /\ UNCHANGED <<inFlight, log, fails>>
        ELSE Invoke(Append(st, fillCompleteFormFrame(full, formData, j)),
                    FieldHelper(Order(full)[j], formData), "")

\* fillCompleteForm that carries on with the next field after a failed one
fillCompleteForm_await_lenient ==
  /\ stack # <<>> /\ Top.fn = "fillCompleteForm" /\ ret # NoRet
  /\ LET j == NextField(Order(Top.flag), Top.data, Top.idx)
     IN  IF j = 0
           THEN /\ stack' = SubSeq(stack, 1, Len(stack) - 1)
                /\ ret' = Ok
                /\ UNCHANGED <<inFlight, log, fails>>
           ELSE Invoke([stack EXCEPT ![Len(stack)] = [Top EXCEPT !.idx = j]],
                       FieldHelper(Order(Top.flag)[j], Top.data), "")
  /\ UNCHANGED <<dom, run>>

\* the helper awaited by fillCompleteForm has settled
\* fillCompleteForm that goes through all its fields and raises the first
\* error at the end
fillCompleteForm_await_collecting ==
  /\ stack # <<>> /\ Top.fn = "fillCompleteForm" /\ ret # NoRet
  /\ LET j == NextField(Order(Top.flag), Top.data, Top.idx)
         first == IF Top.name = "" /\ ret.status = "error" THEN ret.err ELSE Top.name
     IN  IF j = 0
           THEN /\ stack' = SubSeq(stack, 1, Len(stack) - 1)
                /\ ret' = IF first = "" THEN Ok ELSE Raised(first)
                /\ UNCHANGED <<inFlight, log, fails>>
           ELSE Invoke([stack EXCEPT ![Len(stack)] = [Top EXCEPT !.idx = j, !.name = first]],
                       FieldHelper(Order(Top.flag)[j], Top.data), "")
  /\ UNCHANGED <<dom, run>>

fillCompleteForm_await ==
  /\ stack # <<>> /\ Top.fn = "fillCompleteForm" /\ ret # NoRet
  /\ IF ret.status = "error"
       THEN /\ stack' = SubSeq(stack, 1, Len(stack) - 1)
            /\ UNCHANGED <<ret, inFlight, log, fails>>
       ELSE LET j == NextField(Order(Top.flag), Top.data, Top.idx)
            IN  IF j = 0
                  THEN /\ stack' = SubSeq(stack, 1, Len(stack) - 1)
                       /\ ret' = Ok
                       /\ UNCHANGED <<inFlight, log, fails>>
                  ELSE Invoke([stack EXCEPT ![Len(stack)] = [Top EXCEPT !.idx = j]],
                              FieldHelper(Order(Top.flag)[j], Top.data), "")
  /\ UNCHANGED <<dom, run>>

----------------------------------------------------------------------------
(* A caller of the helpers: one helper call on a document in any state *)

WellBehaved == [l \in Locators |-> IF l \in Messages THEN "absent" ELSE "ok"]

NoText == [m \in Messages |-> ""]

\* test, fa, fl: the running test and the pages its formActions and
\* formLocators objects were built from (0: no test runner);
\* hist: the helper calls a caller has completed before the one in progress
Idle(faults) ==
  [phase |-> "idle", faults |-> faults, op |-> "", full |-> FALSE, call |-> NoData,
   test |-> 0, fa |-> 0, fl |-> 0, outcome |-> "", hist |-> <<>>]

Init ==
  /\ mode = WellBehaved
  /\ value = EmptyValues
  /\ checked = Unchecked
  /\ text = NoText
  /\ stack = <<>>
  /\ ret = NoRet
  /\ inFlight = {}
  /\ log = <<>>
  /\ fails = <<>>
  /\ run = Idle(0)

\* the document the helper is going to meet differs from the well-behaved form
DocElementFault ==
  /\ run.phase = "idle" /\ run.faults < MaxFaults
  /\ \E c \in Controls : \E m \in FaultModes(c) : mode[c] = "ok" /\ mode' = [mode EXCEPT ![c] = m]
  /\ run' = [run EXCEPT !.faults = @ + 1]
  /\ UNCHANGED <<value, checked, text, stack, ret, inFlight, log, fails>>

DocShowsMessage ==
  /\ run.phase = "idle" /\ run.faults < MaxFaults
  /\ \E m \in Messages, t \in Texts : mode[m] = "absent" /\ PageResponds(m, t)
  /\ run' = [run EXCEPT !.faults = @ + 1]
  /\ UNCHANGED <<value, checked, stack, ret, inFlight, log, fails>>

DocHoldsValue ==
  /\ run.phase = "idle" /\ run.faults < MaxFaults
  /\ \/ \E c \in ValueControls, v \in StrValues \ {""} :
          /\ value[c] = ""
          /\ value' = [value EXCEPT ![c] = v]
          /\ checked' = checked
     \/ \E c \in CheckControls :
          /\ ~checked[c]
          /\ checked' = [checked EXCEPT ![c] = TRUE]
          /\ value' = value
  /\ run' = [run EXCEPT !.faults = @ + 1]
  /\ UNCHANGED <<mode, text, stack, ret, inFlight, log, fails>>

\* call: the frame of the helper called, with its arguments
Called(op, full, call) ==
  [run EXCEPT !.phase = "called", !.op = op, !.full = full, !.call = call]

TextKeys == {"name", "email", "phone", "message", "company"}

CallFill ==
  /\ run.phase = "idle"
  /\ \E k \in TextKeys, v \in StrValues :
       LET f == FieldHelper(k, [x \in {k} |-> v])
       IN  Invoke(<<>>, f, "") /\ run' = Called("fillField", TRUE, f)
  /\ UNCHANGED dom

CallSelect ==
  /\ run.phase = "idle"
  /\ \/ \E v \in StrValues :
          /\ Invoke(<<>>, selectRole(v), "")
          /\ run' = Called("selectRole", TRUE, selectRole(v))
     \/ \E v \in StrValues :
          /\ Invoke(<<>>, selectCountry(v), "")
          /\ run' = Called("selectCountry", FALSE, selectCountry(v))
     \/ \E b \in BOOLEAN :
          /\ Invoke(<<>>, setAgreeToTerms(b), "")
          /\ run' = Called("setCheckbox", TRUE, setAgreeToTerms(b))
     \/ \E b \in BOOLEAN :
          /\ Invoke(<<>>, setNewsletterSubscription(b), "")
          /\ run' = Called("setCheckbox", TRUE, setNewsletterSubscription(b))
     \/ \E m \in ContactMethods :
          /\ Invoke(<<>>, selectContactMethod(m), "")
          /\ run' = Called("selectContactMethod", TRUE, selectContactMethod(m))
  /\ UNCHANGED dom

CallButton ==
  /\ run.phase = "idle"
  /\ \/ /\ Invoke(<<>>, submitForm("registerButton"), "")
        /\ run' = Called("submitForm", FALSE, submitForm("registerButton"))
     \/ /\ Invoke(<<>>, submitForm("submitButton"), "")
        /\ run' = Called("submitForm", TRUE, submitForm("submitButton"))
     \/ /\ Invoke(<<>>, resetForm, "")
        /\ run' = Called("resetForm", TRUE, resetForm)
  /\ UNCHANGED dom

CallLoad ==
  /\ run.phase = "idle"
  /\ \E full \in BOOLEAN :
       \/ /\ Invoke(<<>>, navigateToForm(full), "/")
          /\ run' = Called("navigateToForm", full, navigateToForm(full))
       \/ /\ Invoke(<<>>, waitForFormToLoad(full), "")
          /\ run' = Called("waitForFormToLoad", full, waitForFormToLoad(full))
  /\ UNCHANGED dom

CallClear ==
  /\ run.phase = "idle"
  /\ \E full \in BOOLEAN :
       /\ Invoke(<<>>, clearAllFields(full), "")
       /\ run' = Called("clearAllFields", full, clearAllFields(full))
  /\ UNCHANGED dom

CallVerify ==
  /\ run.phase = "idle"
  /\ \E given \in BOOLEAN, t \in Texts :
       /\ given \/ t = ""
       /\ \/ \E full \in BOOLEAN :
               \E field \in (IF full THEN FieldsFull ELSE FieldsSimple) :
                 LET f == verifyFieldError(full, field, given, t)
                 IN  Invoke(<<>>, f, "") /\ run' = Called("verifyFieldError", full, f)
          \/ LET f == verifyFormSuccess(given, t)
             IN  Invoke(<<>>, f, "") /\ run' = Called("verifyFormSuccess", TRUE, f)
  /\ UNCHANGED dom

CallRead ==
  /\ run.phase = "idle"
  /\ Invoke(<<>>, getCurrentFormValues, "")
  /\ run' = Called("getCurrentFormValues", TRUE, getCurrentFormValues)
  /\ UNCHANGED dom

\* the records a caller may pass to fillCompleteForm: any subset of keys the
\* version called looks at, text keys holding v, flags holding b
DataKeys(full) ==
  IF full THEN {"name", "agreeToTerms"} ELSE {"name", "country"}

FormDatas(full) ==
  {[k \in K |-> IF k \in FlagKeys THEN b ELSE v] :
     K \in SUBSET DataKeys(full), v \in StrValues, b \in BOOLEAN}

CallFillComplete ==
  /\ run.phase = "idle"
  /\ \E full \in BOOLEAN : \E formData \in FormDatas(full) :
       /\ fillCompleteForm(<<>>, full, formData)
       /\ run' = Called("fillCompleteForm", full, fillCompleteFormFrame(full, formData, 0))
  /\ UNCHANGED dom

Helpers ==
  \/ fillField_toBeVisible \/ fillField_clear \/ fillField_fill \/ fillField_toHaveValue
  \/ selectRole_toBeVisible \/ selectRole_selectOption \/ selectRole_toHaveValue
  \/ setCheckbox_toBeVisible \/ setCheckbox_setChecked
  \/ setCheckbox_toBeChecked \/ setCheckbox_notToBeChecked
  \/ selectContactMethod_toBeVisible \/ selectContactMethod_check
  \/ selectContactMethod_toBeChecked
  \/ selectCountry_toBeVisible \/ selectCountry_clickDropdown \/ selectCountry_clickOption
  \/ submitForm_toBeVisible \/ submitForm_toBeEnabled \/ submitForm_click
  \/ submitForm_waitForLoadState
  \/ resetForm_toBeVisible \/ resetForm_click
  \/ navigateToForm_goto \/ waitForFormToLoad_toBeVisible \/ waitForFormToLoad_toBeHidden
  \/ clearAllFields_clear
  \/ verifyFieldError_toBeVisible \/ verifyFieldError_toContainText
  \/ verifyFormSuccess_toBeVisible \/ verifyFormSuccess_toContainText
  \/ getCurrentFormValues_inputValue
  \/ fillCompleteForm_await

Next ==
  \/ DocElementFault \/ DocShowsMessage \/ DocHoldsValue
  \/ CallFill \/ CallSelect \/ CallButton \/ CallLoad \/ CallClear
  \/ CallVerify \/ CallRead \/ CallFillComplete
  \/ Helpers

Spec == Init /\ [][Next]_vars

\* the pages one deviation away from the well-behaved form
LivePages ==
  {[mode |-> WellBehaved, text |-> NoText]}
    \cup UNION {{[mode |-> [WellBehaved EXCEPT ![c] = m], text |-> NoText] :
                   m \in FaultModes(c)} : c \in Controls}
    \cup {[mode |-> [WellBehaved EXCEPT ![m] = "ok"], text |-> [NoText EXCEPT ![m] = t]] :
            m \in Messages, t \in Texts}

InitLive ==
  /\ \E p \in LivePages : mode = p.mode /\ text = p.text
  /\ value = EmptyValues
  /\ checked = Unchecked
  /\ stack = <<>>
  /\ ret = NoRet
  /\ inFlight = {}
  /\ log = <<>>
  /\ fails = <<>>
  /\ run = Idle(0)

NextLive ==
  \/ CallFill \/ CallSelect \/ CallButton \/ CallLoad \/ CallClear
  \/ CallVerify \/ CallRead \/ CallFillComplete
  \/ Helpers

\* the library settles every call it was given: each wait carries a timeout,
\* its own or the library's default
SpecLive == InitLive /\ [][NextLive]_vars /\ WF_vars(Helpers)

\* the helper called has settled
Settled == run.phase = "called" /\ stack = <<>> /\ ret # NoRet

Returned == Settled /\ ret.status = "ok"

Threw == Settled /\ ret.status = "error"

----------------------------------------------------------------------------
(* TestDataGenerator and the test patterns (src/utils/TestData.ts) *)

getValidFormData ==
  [name |-> "John Doe",
   email |-> "john.doe@example.com",
   phone |-> "+44 20 7946 0958",
   message |-> "This is a test message for the contact form validation.",
   company |-> "Test Company Ltd",
   role |-> "developer",
   agreeToTerms |-> TRUE,
   subscribeNewsletter |-> FALSE,
   contactMethod |-> "email"]

INVALID_PHONES == <<"abc123", "123", "phone-number", "++44 20 7946 0958", "">>

----------------------------------------------------------------------------
(* The test runner on tests/specs/form.spec.ts: one test after the other,   *)
(* each on a page of its own                                               *)

TestBodies == {"valid", "phone", "loading"}

\* fields a target form may do without
OptionalControls == {"phoneInput", "companyInput", "newsletterCheckbox"}

\* what the page at the base URL may fail to show: an optional field, or the
\* form altogether
MayBeMissing == OptionalControls \cup {"formContainer"}

FreshPage(n) ==
  [Idle(0) EXCEPT !.test = n, !.op = "test", !.full = TRUE, !.fa = run.fa, !.fl = run.fl]

InitTests ==
  /\ mode = WellBehaved
  /\ value = EmptyValues
  /\ checked = Unchecked
  /\ text = NoText
  /\ stack = <<>>
  /\ ret = NoRet
  /\ inFlight = {}
  /\ log = <<>>
  /\ fails = <<>>
  /\ run = [Idle(0) EXCEPT !.test = 1, !.op = "test", !.full = TRUE]

TargetFormLacks ==
  /\ run.phase = "idle" /\ run.faults < MaxFaults
  /\ \E c \in MayBeMissing : mode[c] = "ok" /\ mode' = [mode EXCEPT ![c] = "absent"]
  /\ run' = [run EXCEPT !.faults = @ + 1]
  /\ UNCHANGED <<value, checked, text, stack, ret, inFlight, log, fails>>

TestFrame(body) == [Frame("test", "new", "") EXCEPT !.name = body]

\* the test body is at position pc and what it awaited has settled
AtTest(body, pc) ==
  /\ Len(stack) = 1 /\ Top.fn = "test" /\ Top.name = body /\ Top.pc = pc
  /\ ret # NoRet

Goto(pc) == [stack EXCEPT ![1] = [Top EXCEPT !.pc = pc]]

\* the test is over: the runner records the outcome and closes the page, which
\* ends whatever is still in flight on it
EndTest(outcome) ==
  /\ stack' = <<>>
  /\ ret' = NoRet
  /\ inFlight' = {}
  /\ run' = [run EXCEPT !.phase = "ended", !.outcome = outcome]
  /\ log' = log

\* beforeEach reuses the formLocators object of an earlier test
beforeEach_new_reused ==
  /\ run.phase = "idle" /\ stack = <<>>
  /\ \E body \in TestBodies :
       /\ stack' = <<TestFrame(body)>>
       /\ run' = [run EXCEPT !.phase = "running", !.call = TestFrame(body),
                             !.fa = run.test,
                             !.fl = IF run.fl = 0 THEN run.test ELSE run.fl]
  /\ ret' = Ok
  /\ UNCHANGED <<dom, inFlight, log, fails>>

\* test.beforeEach: formActions and formLocators are built from the test's page
beforeEach_new ==
  /\ run.phase = "idle" /\ stack = <<>>
  /\ \E body \in TestBodies :
       /\ stack' = <<TestFrame(body)>>
       /\ run' = [run EXCEPT !.phase = "running", !.call = TestFrame(body),
                             !.fa = run.test, !.fl = run.test]
  /\ ret' = Ok
  /\ UNCHANGED <<dom, inFlight, log, fails>>

beforeEach_navigateToForm ==
  /\ \E body \in TestBodies : AtTest(body, "new")
  /\ Invoke(Goto("beforeEach"), navigateToForm(TRUE), "/")
  /\ UNCHANGED <<dom, run>>

beforeEach_failed ==
  /\ \E body \in TestBodies : AtTest(body, "beforeEach")
  /\ ret.status = "error"
  /\ EndTest("failed")
  /\ UNCHANGED <<dom, fails>>

\* 'should submit form with complete valid data'
valid_fillCompleteForm ==
  /\ AtTest("valid", "beforeEach") /\ ret.status = "ok"
  /\ fillCompleteForm(Goto("fillCompleteForm"), TRUE, getValidFormData)
  /\ UNCHANGED <<dom, run>>

valid_submitForm ==
  /\ AtTest("valid", "fillCompleteForm")
  /\ IF ret.status = "error"
       THEN EndTest("failed") /\ fails' = fails
       ELSE Invoke(Goto("submitForm"), submitForm("submitButton"), "") /\ run' = run
  /\ UNCHANGED dom

valid_verifyFormSuccess ==
  /\ AtTest("valid", "submitForm")
  /\ IF ret.status = "error"
       THEN EndTest("failed") /\ fails' = fails
       ELSE Invoke(Goto("verifyFormSuccess"), verifyFormSuccess(FALSE, ""), "") /\ run' = run
  /\ UNCHANGED dom

valid_end ==
  /\ AtTest("valid", "verifyFormSuccess")
  /\ EndTest(IF ret.status = "error" THEN "failed" ELSE "passed")
  /\ UNCHANGED <<dom, fails>>

\* 'should validate phone number format if phone field exists'
invalidPhoneData(i) == [getValidFormData EXCEPT !.phone = INVALID_PHONES[i]]

\* the test starts clearing the fields without awaiting isVisible
phone_isVisible_notAwaited ==
  /\ AtTest("phone", "beforeEach") /\ ret.status = "ok"
  /\ stack' = Append([stack EXCEPT ![1] = [Top EXCEPT !.pc = "clearAllFields", !.idx = 1]],
                     [clearAllFields(TRUE) EXCEPT !.base = Len(log) + 1])
  /\ inFlight' = {CallRec([Top EXCEPT !.pc = "isVisible", !.tgt = "phoneInput"], 1),
                  CallRec(clearAllFields(TRUE), 2)}
  /\ log' = log \o << <<"isVisible", "phoneInput", "">>, <<"clear", "nameInput", "">> >>
  /\ ret' = NoRet
  /\ UNCHANGED <<dom, run, fails>>

phone_isVisible ==
  /\ AtTest("phone", "beforeEach") /\ ret.status = "ok"
  /\ Issue("isVisible", "phoneInput", "")
  /\ UNCHANGED <<dom, run>>

\* isVisible() answers true or false and never raises; the answer is dropped
phone_clearAllFields ==
  /\ Running("test", "isVisible") /\ Top.name = "phone"
  /\ Invoke([stack EXCEPT ![1] = [Top EXCEPT !.pc = "clearAllFields", !.idx = 1]],
            clearAllFields(TRUE), "")
  /\ UNCHANGED <<dom, run>>

phone_fillCompleteForm ==
  /\ AtTest("phone", "clearAllFields")
  /\ IF ret.status = "error"
       THEN EndTest("skipped") /\ fails' = fails
       ELSE /\ fillCompleteForm(Goto("fillCompleteForm"), TRUE, invalidPhoneData(Top.idx))
            /\ run' = run
  /\ UNCHANGED dom

phone_submitForm ==
  /\ AtTest("phone", "fillCompleteForm")
  /\ IF ret.status = "error"
       THEN EndTest("skipped") /\ fails' = fails
       ELSE Invoke(Goto("submitForm"), submitForm("submitButton"), "") /\ run' = run
  /\ UNCHANGED dom

phone_verifyFieldError ==
  /\ AtTest("phone", "submitForm")
  /\ IF ret.status = "error"
       THEN EndTest("skipped") /\ fails' = fails
       ELSE /\ Invoke(Goto("verifyFieldError"), verifyFieldError(TRUE, "phone", FALSE, ""), "")
            /\ run' = run
  /\ UNCHANGED dom

phone_navigateToForm ==
  /\ AtTest("phone", "verifyFieldError")
  /\ IF ret.status = "error"
       THEN EndTest("skipped") /\ fails' = fails
       ELSE Invoke(Goto("navigateToForm"), navigateToForm(TRUE), "/") /\ run' = run
  /\ UNCHANGED dom

phone_next ==
  /\ AtTest("phone", "navigateToForm")
  /\ IF ret.status = "error"
       THEN EndTest("skipped") /\ fails' = fails
       ELSE IF Top.idx < Len(INVALID_PHONES)
              THEN /\ Invoke([stack EXCEPT ![1] = [Top EXCEPT !.pc = "clearAllFields",
                                                             !.idx = Top.idx + 1]],
                             clearAllFields(TRUE), "")
                   /\ run' = run
              ELSE EndTest("passed") /\ fails' = fails
  /\ UNCHANGED dom

\* 'should handle form submission loading state'
loading_fillCompleteForm ==
  /\ AtTest("loading", "beforeEach") /\ ret.status = "ok"
  /\ fillCompleteForm(Goto("fillCompleteForm"), TRUE, getValidFormData)
  /\ UNCHANGED <<dom, run>>

loading_submitForm ==
  /\ AtTest("loading", "fillCompleteForm")
  /\ IF ret.status = "error"
       THEN EndTest("failed") /\ fails' = fails
       ELSE Invoke(Goto("submitForm"), submitForm("submitButton"), "") /\ run' = run
  /\ UNCHANGED dom

\* the frame of the test while Promise.race is pending: its own expectation
\* on the loading indicator is in flight next to verifyFormSuccess
RaceFrame == [Top EXCEPT !.pc = "toBeVisible", !.tgt = "loadingIndicator"]

Racing ==
  /\ stack # <<>>
  /\ stack[1].fn = "test" /\ stack[1].name = "loading" /\ stack[1].pc = "toBeVisible"

\* Promise.race([verifyFormSuccess(), expect(loadingIndicator).toBeVisible()]):
\* both are started before either is awaited
loading_race ==
  /\ AtTest("loading", "submitForm")
  /\ IF ret.status = "error"
       THEN EndTest("failed") /\ fails' = fails
       ELSE /\ stack' = <<RaceFrame, [verifyFormSuccess(FALSE, "") EXCEPT !.base = Len(log)]>>
            /\ inFlight' = {CallRec(verifyFormSuccess(FALSE, ""), 2), CallRec(RaceFrame, 1)}
            /\ log' = log \o << <<"toBeVisible", "successMessage", "">>,
                                <<"toBeVisible", "loadingIndicator", "">> >>
            /\ ret' = NoRet
            /\ UNCHANGED <<run, fails>>
  /\ UNCHANGED dom

\* verifyFormSuccess settles first and decides the race
loading_race_verifyFormSuccess ==
  /\ AtTest("loading", "toBeVisible")
  /\ EndTest(IF ret.status = "error" THEN "failed" ELSE "passed")
  /\ UNCHANGED <<dom, fails>>

\* the expectation on the loading indicator settles first and decides the race
loading_race_loadingIndicator ==
  /\ Racing /\ Len(stack) = 2
  /\ CallRec(stack[1], 1) \in inFlight
  /\ IF IsVisible("loadingIndicator")
       THEN EndTest("passed") /\ fails' = fails
       ELSE EndTest("failed") /\ fails' = Append(fails, <<"toBeVisible", "loadingIndicator">>)
  /\ UNCHANGED dom

\* the runner goes on to the next test, on a fresh page
NextTest ==
  /\ run.phase = "ended" /\ run.test < MaxTests
  /\ mode' = WellBehaved
  /\ value' = EmptyValues
  /\ checked' = Unchecked
  /\ text' = NoText
  /\ run' = FreshPage(run.test + 1)
  /\ log' = <<>>
  /\ fails' = <<>>
  /\ UNCHANGED <<stack, ret, inFlight>>

HelpersOfTests ==
  \/ fillField_toBeVisible \/ fillField_clear \/ fillField_fill \/ fillField_toHaveValue
  \/ selectRole_toBeVisible \/ selectRole_selectOption \/ selectRole_toHaveValue
  \/ setCheckbox_toBeVisible \/ setCheckbox_setChecked
  \/ setCheckbox_toBeChecked \/ setCheckbox_notToBeChecked
  \/ selectContactMethod_toBeVisible \/ selectContactMethod_check
  \/ selectContactMethod_toBeChecked
  \/ submitForm_toBeVisible \/ submitForm_toBeEnabled \/ submitForm_click
  \/ submitForm_waitForLoadState
  \/ navigateToForm_goto \/ waitForFormToLoad_toBeVisible \/ waitForFormToLoad_toBeHidden
  \/ clearAllFields_clear
  \/ verifyFieldError_toBeVisible
  \/ verifyFormSuccess_toBeVisible
  \/ fillCompleteForm_await

NextTests ==
  \/ TargetFormLacks
  \/ beforeEach_new \/ beforeEach_navigateToForm \/ beforeEach_failed
  \/ valid_fillCompleteForm \/ valid_submitForm \/ valid_verifyFormSuccess \/ valid_end
  \/ phone_isVisible \/ phone_clearAllFields \/ phone_fillCompleteForm
  \/ phone_submitForm \/ phone_verifyFieldError \/ phone_navigateToForm \/ phone_next
  \/ loading_fillCompleteForm \/ loading_submitForm \/ loading_race
  \/ loading_race_verifyFormSuccess \/ loading_race_loadingIndicator
  \/ NextTest
  \/ HelpersOfTests

SpecTests == InitTests /\ [][NextTests]_vars

----------------------------------------------------------------------------
(* FormPage.fillCompleteForm *)

\* the order of the statements of FormPage.fillCompleteForm
PageOrder ==
  <<"name", "email", "phone", "message", "company", "role",
    "agreeToTerms", "subscribeNewsletter", "contactMethod">>

\* every field guarded by !== undefined
PageApplies_defined(k, formData) == k \in DOMAIN formData

\* the guard of the statement for key k: if (formData.k), and
\* if (formData.k !== undefined) for the two checkboxes
PageApplies(k, formData) ==
  /\ k \in DOMAIN formData
  /\ k \in {"agreeToTerms", "subscribeNewsletter"} \/ Truthy(formData[k])

\* the first statement after position i whose guard holds, 0 when none
PageNextField(formData, i) ==
  LET later == {j \in (i + 1)..Len(PageOrder) : PageApplies(PageOrder[j], formData)}
  IN  IF later = {} THEN 0 ELSE CHOOSE j \in later : \A k \in later : j <= k

\* the library call FormPage's method for key k makes
PageCall(k) ==
  CASE k \in {"name", "email", "phone", "message", "company"} -> "fill"
    [] k = "role" -> "selectOption"
    [] k \in {"agreeToTerms", "subscribeNewsletter"} -> "setChecked"
    [] k = "contactMethod" -> "check"

\* contactMethodRadios.filter({ hasText: method }) is the radio of that method
PageTarget(k, v) == IF k = "contactMethod" THEN radioLocator(v) ELSE FieldOf(k)

\* the frame of FormPage.fillCompleteForm awaiting the method of statement j
FormPage_fillCompleteForm(formData, j) ==
  LET k == PageOrder[j]
      isFlag == k \in {"agreeToTerms", "subscribeNewsletter"}
  IN  [Frame("FormPage_fillCompleteForm", PageCall(k), PageTarget(k, formData[k])) EXCEPT
         !.data = formData, !.idx = j, !.name = k,
         !.val = IF isFlag THEN BoolStr(formData[k]) ELSE formData[k],
         !.flag = isFlag /\ formData[k]]

\* the call of fillName, ..., selectContactMethod in flight settles; none of
\* these methods asserts or catches anything
FormPage_fillCompleteForm_await ==
  /\ stack # <<>> /\ Top.fn = "FormPage_fillCompleteForm" /\ ret = NoRet
  /\ LET done == Actionable(Top.tgt) /\ mode[Top.tgt] # "rejects"
         altered == mode[Top.tgt] = "alters"
         j == PageNextField(Top.data, Top.idx)
     IN  /\ IF ~done
              THEN UNCHANGED <<value, checked>>
              ELSE CASE Top.pc \in {"fill", "selectOption"} ->
                          /\ IF altered
                               THEN \E w \in StrValues \ {Top.val} :
                                      value' = [value EXCEPT ![Top.tgt] = w]
                               ELSE value' = [value EXCEPT ![Top.tgt] = Top.val]
                          /\ checked' = checked
                     [] Top.pc = "setChecked" ->
                          /\ checked' = [checked EXCEPT ![Top.tgt] =
                                           IF altered THEN ~Top.flag ELSE Top.flag]
                          /\ value' = value
                     [] Top.pc = "check" ->
                          /\ checked' = IF altered
                                          THEN [checked EXCEPT ![Top.tgt] = FALSE]
                                          ELSE [checked EXCEPT ![Top.tgt] = TRUE,
                                                               ![OtherRadio(Top.tgt)] = FALSE]
                          /\ value' = value
         /\ IF ~done
              THEN Return(Raised(LibError(Top.pc, Top.tgt)))
              ELSE IF j = 0
                     THEN Return(Ok)
                     ELSE LET f == FormPage_fillCompleteForm(Top.data, j)
                          IN  IssueF([f EXCEPT !.base = Top.base], f.val)
  /\ UNCHANGED <<mode, text, run>>

----------------------------------------------------------------------------
(* A caller that fills the form, may reset it, and then reads it *)

\* the pages such a caller may be on: the well-behaved form, a form whose
\* reset control leaves the fields as they are, a form without a phone field
SessionPages ==
  {WellBehaved,
   [WellBehaved EXCEPT !["resetButton"] = "alters"],
   [WellBehaved EXCEPT !["phoneInput"] = "absent"],
   [WellBehaved EXCEPT !["countryOption"] = "absent"],
   [WellBehaved EXCEPT !["nameInput"] = "hidden"],
   [WellBehaved EXCEPT !["nameInput"] = "alters"]}

\* what the form may hold when the caller starts
SessionValues == {EmptyValues, [EmptyValues EXCEPT !["nameInput"] = "ab"]}

InitSession ==
  /\ mode \in SessionPages
  /\ value \in SessionValues
  /\ checked = Unchecked
  /\ text = NoText
  /\ stack = <<>>
  /\ ret = NoRet
  /\ inFlight = {}
  /\ log = <<>>
  /\ fails = <<>>
  /\ run = [Idle(0) EXCEPT !.full = TRUE]

LastOp == IF run.hist = <<>> THEN "" ELSE run.hist[Len(run.hist)].op

SessionFill ==
  /\ run.hist = <<>>
  /\ CallFill

\* the records the caller passes: parts of one record, the name being any value
SessionDatas(full) ==
  {[k \in K |-> CASE k = "name" -> v
                  [] k \in {"phone", "email"} -> "a"
                  [] k \in {"role", "country"} -> "ab"
                  [] k = "agreeToTerms" -> TRUE
                  [] k = "contactMethod" -> "email"] :
     K \in SUBSET (IF full THEN {"name", "phone", "role", "agreeToTerms", "contactMethod"}
                           ELSE {"name", "email", "country"}),
     v \in StrValues}

SessionFillComplete ==
  /\ run.phase = "idle" /\ run.hist = <<>>
  /\ \E full \in BOOLEAN : \E formData \in SessionDatas(full) :
       /\ fillCompleteForm(<<>>, full, formData)
       /\ run' = Called("fillCompleteForm", full, fillCompleteFormFrame(full, formData, 0))
  /\ UNCHANGED dom

SessionReset ==
  /\ run.phase = "idle" /\ LastOp \in {"fillField", "fillCompleteForm"} /\ run.full
  /\ Invoke(<<>>, resetForm, "")
  /\ run' = Called("resetForm", TRUE, resetForm)
  /\ UNCHANGED dom

SessionRead ==
  /\ run.hist # <<>> /\ run.full
  /\ CallRead

SessionVerifyEmpty ==
  /\ run.phase = "idle" /\ run.hist # <<>> /\ run.full
  /\ verifyFormIsEmpty(<<>>)
  /\ run' = Called("verifyFormIsEmpty", TRUE, Frame("verifyFormIsEmpty", "await", ""))
  /\ UNCHANGED dom

\* clearing the form, at first or after a fill
SessionClear ==
  /\ LastOp \in {"", "fillField", "fillCompleteForm"}
  /\ CallClear

\* the record given to the full FormActions.fillCompleteForm is given to
\* FormPage.fillCompleteForm as well
SessionPageFill ==
  /\ run.phase = "idle" /\ LastOp = "fillCompleteForm" /\ run.full /\ Len(run.hist) = 1
  /\ LET formData == run.hist[1].call.data
         j == PageNextField(formData, 0)
         f == IF j = 0
                THEN [Frame("FormPage_fillCompleteForm", "", "") EXCEPT !.data = formData]
                ELSE FormPage_fillCompleteForm(formData, j)
     IN  /\ IF j = 0
              THEN /\ ret' = Ok
                   /\ UNCHANGED <<stack, inFlight, log, fails>>
              ELSE Invoke(<<>>, f, f.val)
         /\ run' = Called("FormPage_fillCompleteForm", TRUE, f)
  /\ UNCHANGED dom

\* the call has settled and the caller goes on to its next statement
SessionContinue ==
  /\ run.phase = "called" /\ stack = <<>> /\ ret # NoRet
  /\ run.op \in {"fillField", "fillCompleteForm", "resetForm"}
  /\ run' = [run EXCEPT !.phase = "idle",
                        !.hist = Append(@, [op |-> run.op, call |-> run.call,
                                            status |-> ret.status, log |-> log])]
  /\ ret' = NoRet
  /\ log' = <<>>
  /\ fails' = <<>>
  /\ UNCHANGED <<dom, stack, inFlight>>

HelpersOfSession ==
  \/ fillField_toBeVisible \/ fillField_clear \/ fillField_fill \/ fillField_toHaveValue
  \/ selectRole_toBeVisible \/ selectRole_selectOption \/ selectRole_toHaveValue
  \/ setCheckbox_toBeVisible \/ setCheckbox_setChecked \/ setCheckbox_toBeChecked
  \/ selectCountry_toBeVisible \/ selectCountry_clickDropdown \/ selectCountry_clickOption
  \/ resetForm_toBeVisible \/ resetForm_click
  \/ getCurrentFormValues_inputValue
  \/ verifyFormIsEmpty_await
  \/ fillCompleteForm_await
  \/ clearAllFields_clear
  \/ selectContactMethod_toBeVisible \/ selectContactMethod_check
  \/ selectContactMethod_toBeChecked
  \/ FormPage_fillCompleteForm_await

NextSession ==
  \/ SessionFill \/ SessionFillComplete \/ SessionReset \/ SessionClear
  \/ SessionPageFill
  \/ SessionRead \/ SessionVerifyEmpty \/ SessionContinue
  \/ HelpersOfSession

SpecSession == InitSession /\ [][NextSession]_vars

----------------------------------------------------------------------------
(* TestDataGenerator, called by a test that keeps and changes the records *)

\* { ...obj, k: v }
Spread(obj, k, v) == [x \in DOMAIN obj \cup {k} |-> IF x = k THEN v ELSE obj[x]]

\* delete obj.k
Delete(obj, k) == [x \in DOMAIN obj \ {k} |-> obj[x]]

\* what reading past the end of an array gives
Undefined == "<undefined>"

\* list[i], the index counted from 0
At(list, i) == IF i \in 0..(Len(list) - 1) THEN list[i + 1] ELSE Undefined

\* getValidFormData hands out one object kept by the class
TestDataGenerator_getValidFormData_shared(objs) ==
  IF objs = <<>> THEN <<Append(objs, getValidFormData), 1>> ELSE <<objs, 1>>

\* a call of getValidFormData with objs allocated: the object literal
\* allocates a new object; the result is the objects and the one returned
TestDataGenerator_getValidFormData(objs) ==
  <<Append(objs, getValidFormData), Len(objs) + 1>>

\* the object a call of getValidFormData returns
ValidNow(objs) ==
  LET r == TestDataGenerator_getValidFormData(objs) IN r[1][r[2]]

\* the invalid value alone, without the spread
getInvalidEmailData_bare(objs) == [email |-> "invalid-email-format"]

getInvalidEmailData(objs) == Spread(ValidNow(objs), "email", "invalid-email-format")

getInvalidPhoneData(objs) == Spread(ValidNow(objs), "phone", "abc123")

getDataWithoutAgreement(objs) == Spread(ValidNow(objs), "agreeToTerms", FALSE)

names == <<"Alice Johnson", "Bob Wilson", "Carol Davis", "David Brown", "Emma Wilson">>

companies ==
  <<"Tech Solutions", "Digital Innovations", "Creative Agency", "Consulting Group",
    "Development House">>

roles == <<"developer", "manager", "consultant", "analyst", "designer">>

messages ==
  <<"I would like to inquire about your services.",
    "Please contact me regarding your products.",
    "I am interested in a partnership opportunity.",
    "Could you provide more information about pricing?",
    "I need assistance with technical implementation.">>

AVAILABLE_ROLES == {"developer", "manager", "consultant", "analyst", "designer", "other"}

CONTACT_METHODS == {"email", "phone"}

\* Math.random() gives r / RandomSteps for some r in 0..RandomSteps - 1
RandomSteps == 5

RandomDraws == 0..(RandomSteps - 1)

\* the values Date.now() may give
Clock == {0, 7}

\* an index counted from 1
randomIndex_fromOne(r) == (r * Len(names)) \div RandomSteps + 1

\* Math.floor(Math.random() * names.length)
randomIndex(r) == (r * Len(names)) \div RandomSteps

\* Math.random() > 0.5
OverHalf(r) == 2 * r > RandomSteps

\* r1, r2, r3: the three draws, now: the clock
getRandomValidData(r1, r2, r3, now) ==
  [name |-> At(names, randomIndex(r1)),
   email |-> "test" \o ToString(now) \o "@example.com",
   phone |-> "+44 20 7946 0958",
   message |-> At(messages, randomIndex(r1)),
   company |-> At(companies, randomIndex(r1)),
   role |-> At(roles, randomIndex(r1)),
   agreeToTerms |-> TRUE,
   subscribeNewsletter |-> OverHalf(r2),
   contactMethod |-> IF OverHalf(r3) THEN "email" ELSE "phone"]

\* the objects a test may hold at once
MaxObjects == 2

\* the frame of the test: data holds the objects allocated and still
\* reachable, idx the object the last call returned, base the number of
\* objects before that call
DataFrame(objs, ref) ==
  [Frame("test", "", "") EXCEPT !.data = objs, !.idx = ref, !.base = Len(Top.data)]

InitData ==
  /\ mode = WellBehaved
  /\ value = EmptyValues
  /\ checked = Unchecked
  /\ text = NoText
  /\ ret = NoRet
  /\ inFlight = {}
  /\ log = <<>>
  /\ fails = <<>>
  /\ stack = << [Frame("test", "", "") EXCEPT !.data = <<>>, !.base = 0] >>
  /\ run = Idle(0)

\* a generator method returned the object at ref
Generated(op, objs, ref) ==
  /\ Len(objs) <= MaxObjects
  /\ stack' = <<DataFrame(objs, ref)>>
  /\ ret' = [status |-> "ok", err |-> "", val |-> objs[ref]]
  /\ run' = [run EXCEPT !.phase = "called", !.op = op]
  /\ UNCHANGED <<dom, inFlight, log, fails>>

Data_getValidFormData ==
  LET r == TestDataGenerator_getValidFormData(Top.data)
  IN  Generated("getValidFormData", r[1], r[2])

\* the methods built on getValidFormData; the object spread from is dropped
Data_getInvalid ==
  \E op \in {"getInvalidEmailData", "getInvalidPhoneData", "getDataWithoutAgreement"} :
    LET made == CASE op = "getInvalidEmailData" -> getInvalidEmailData(Top.data)
                  [] op = "getInvalidPhoneData" -> getInvalidPhoneData(Top.data)
                  [] op = "getDataWithoutAgreement" -> getDataWithoutAgreement(Top.data)
    IN  Generated(op, Append(Top.data, made), Len(Top.data) + 1)

\* the record of getRandomValidData is one object more while it is looked at;
\* it is not kept
Data_getRandomValidData ==
  /\ Len(Top.data) < MaxObjects
  /\ \E r1, r2, r3 \in RandomDraws, now \in Clock :
       /\ ret' = [status |-> "ok", err |-> "", val |-> getRandomValidData(r1, r2, r3, now)]
       /\ stack' = <<DataFrame(Top.data, 0)>>
  /\ run' = [run EXCEPT !.phase = "called", !.op = "getRandomValidData"]
  /\ UNCHANGED <<dom, inFlight, log, fails>>

\* the test changes an object it holds: delete data.name, or
\* data.subscribeNewsletter = true
DataMutate ==
  /\ \E a \in 1..Len(Top.data) :
       \E changed \in {Delete(Top.data[a], "name"),
                       Spread(Top.data[a], "subscribeNewsletter", TRUE)} :
         /\ changed # Top.data[a]
         /\ stack' = <<DataFrame([Top.data EXCEPT ![a] = changed], 0)>>
  /\ ret' = NoRet
  /\ run' = [run EXCEPT !.phase = "idle", !.op = ""]
  /\ UNCHANGED <<dom, inFlight, log, fails>>

\* a test ends and its objects with it
DataEndTest ==
  /\ Top.data # <<>>
  /\ stack' = <<DataFrame(<<>>, 0)>>
  /\ ret' = NoRet
  /\ run' = [run EXCEPT !.phase = "idle", !.op = ""]
  /\ UNCHANGED <<dom, inFlight, log, fails>>

NextData ==
  \/ Data_getValidFormData \/ Data_getInvalid \/ Data_getRandomValidData
  \/ DataMutate \/ DataEndTest

SpecData == InitData /\ [][NextData]_vars

----------------------------------------------------------------------------
(* A caller that verifies what a page shows *)

MaxErrors == 2

\* the lists of expected errors a test may pass
ErrorLists == UNION {[1..n -> Texts] : n \in 0..MaxErrors}

\* the pages verified: the error message absent, hidden, or shown with a text
VerifyPages ==
  {[WellBehaved EXCEPT !["errorMessage"] = m] : m \in {"absent", "hidden", "ok"}}

\* the forms verified: the name field filled or not, missing or not, the
\* e-mail contact method chosen or not
VerifyForms == {WellBehaved, [WellBehaved EXCEPT !["nameInput"] = "absent"]}

VerifyValues == {EmptyValues, [EmptyValues EXCEPT !["nameInput"] = "ab"]}

VerifyChecks == {Unchecked, [Unchecked EXCEPT !["emailContactRadio"] = TRUE]}

InitVerify ==
  /\ \/ /\ mode \in VerifyPages
        /\ text \in {[NoText EXCEPT !["errorMessage"] = t] : t \in Texts}
        /\ mode["errorMessage"] = "absent" => text = NoText
        /\ value = EmptyValues
        /\ checked = Unchecked
     \/ /\ mode \in VerifyForms
        /\ text = NoText
        /\ value \in VerifyValues
        /\ checked \in VerifyChecks
  /\ stack = <<>>
  /\ ret = NoRet
  /\ inFlight = {}
  /\ log = <<>>
  /\ fails = <<>>
  /\ run = [Idle(0) EXCEPT !.full = TRUE]

CallVerifyErrors ==
  /\ run.phase = "idle"
  /\ \E given \in BOOLEAN, expectedErrors \in ErrorLists :
       /\ given \/ expectedErrors = <<>>
       /\ LET f == verifyValidationErrors(given, expectedErrors)
          IN  Invoke(<<>>, f, "") /\ run' = Called("verifyValidationErrors", TRUE, f)
  /\ UNCHANGED dom

MaxEntries == 2

\* the entries a test may expect: a text field, the role, and a key neither
\* verifyFormData knows
Entries ==
  {<<"name", "">>, <<"name", "ab">>, <<"role", "">>, <<"role", "ab">>,
   <<"contactMethod", "email">>}

\* Object.entries of a record: no key twice
ExpectedDatas ==
  {e \in UNION {[1..n -> Entries] : n \in 0..MaxEntries} :
     \A i, j \in 1..Len(e) : e[i][1] = e[j][1] => i = j}

CallVerifyData ==
  /\ run.phase = "idle"
  /\ \E expectedData \in ExpectedDatas :
       /\ verifyFormData(<<>>, expectedData)
       /\ run' = Called("verifyFormData", TRUE,
                        [Frame("verifyFormData", "await", "") EXCEPT !.data = expectedData])
  /\ UNCHANGED dom

\* FormPage.verifyFormData is called; without an entry it has a case for, it
\* returns without a library call
CallPageVerifyData ==
  /\ run.phase = "idle"
  /\ \E expectedData \in ExpectedDatas :
       LET j == NextCase(expectedData, 0)
           f == IF j = 0
                  THEN [Frame("FormPage_verifyFormData", "", "") EXCEPT !.data = expectedData]
                  ELSE FormPage_verifyFormData(expectedData, j)
       IN  /\ IF j = 0
                THEN /\ ret' = Ok
                     /\ UNCHANGED <<stack, inFlight, log, fails>>
                ELSE Invoke(<<>>, f, expectedData[j][2])
           /\ run' = Called("FormPage_verifyFormData", TRUE, f)
  /\ UNCHANGED dom

HelpersOfVerify ==
  \/ verifyValidationErrors_toBeVisible \/ verifyValidationErrors_toContainText
  \/ getCurrentFormValues_inputValue \/ verifyFormData_await
  \/ FormPage_verifyFormData_toHaveValue

NextVerify ==
  \/ CallVerifyErrors \/ CallVerifyData \/ CallPageVerifyData
  \/ HelpersOfVerify

SpecVerify == InitVerify /\ [][NextVerify]_vars

----------------------------------------------------------------------------
(* Properties of the helpers *)

IsPrefix(s, t) == Len(s) <= Len(t) /\ SubSeq(t, 1, Len(s)) = s

fillFieldCalls(f) ==
  << <<"toBeVisible", f.tgt, "">>, <<"clear", f.tgt, "">>,
     <<"fill", f.tgt, f.val>>, <<"toHaveValue", f.tgt, f.val>> >>

\* C1: fillField issues visibility check, clear, fill, value assertion in that
\* order, and when it returns successfully the field holds the given value.
C1_FillFieldOrderAndValue ==
  /\ (stack # <<>> /\ Top.fn = "fillField") =>
       /\ IsPrefix(Issued(Top), fillFieldCalls(Top))
       /\ Issued(Top) # <<>>
       /\ Top.pc = fillFieldCalls(Top)[Len(Issued(Top))][1]
  /\ (run.op = "fillField" /\ Returned) =>
       /\ log = fillFieldCalls(run.call)
       /\ value[run.call.tgt] = run.call.val

C1_Witness ==
  /\ run.op = "fillField" /\ Returned
  /\ run.call.val = "ab"
  /\ \E c \in TextFields \ {run.call.tgt} : value[c] = "a"

\* C2: whichever step of fillField fails, fillField raises an error whose
\* message names the field and the attempted value and carries the original
\* failure; no failure leaves fillField unwrapped.
C2_FillFieldWraps ==
  (run.op = "fillField" /\ Settled /\ fails # <<>>) =>
    /\ ret.status = "error"
    /\ StartsWith(ret.err, "Failed to fill " \o run.call.name \o " field")
    /\ Contains(ret.err, "with value \"" \o run.call.val \o "\"")
    /\ Contains(ret.err, LibError(fails[1][1], fails[1][2]))

C2_Witness ==
  /\ run.op = "fillField" /\ Threw
  /\ fails = << <<"toHaveValue", run.call.tgt>> >>

submitFormCalls(b) ==
  << <<"toBeVisible", b, "">>, <<"toBeEnabled", b, "">>, <<"click", b, "">>,
     <<"waitForLoadState", "page", "networkidle">> >>

Clicked(b) == \E i \in 1..Len(log) : log[i][1] = "click" /\ log[i][2] = b

\* C3: submitForm clicks the button only after it was seen visible and
\* enabled, returns successfully only after the network-idle wait completed,
\* and for a button that is not visible or not enabled issues no click and
\* raises a wrapped "Failed to submit form" error.
C3_SubmitOrder ==
  run.op = "submitForm" =>
    LET b == run.call.tgt
    IN  /\ IsPrefix(log, submitFormCalls(b))
        /\ Clicked(b) => IsVisible(b) /\ IsEnabled(b)
        /\ Returned => log = submitFormCalls(b) /\ fails = <<>>
        /\ (Settled /\ ~(IsVisible(b) /\ IsEnabled(b))) =>
             /\ ~Clicked(b)
             /\ Threw
             /\ StartsWith(ret.err, "Failed to submit form: ")

C3_Witness ==
  /\ run.op = "submitForm" /\ Threw
  /\ IsVisible(run.call.tgt) /\ ~IsEnabled(run.call.tgt)

SelectOps == {"selectCountry", "selectRole", "setCheckbox", "selectContactMethod"}

HoldsRequested ==
  CASE run.op = "selectCountry" -> value["countryField"] = run.call.val
    [] run.op = "selectRole" -> value["roleSelect"] = run.call.val
    [] run.op = "setCheckbox" -> checked[run.call.tgt] = run.call.flag
    [] run.op = "selectContactMethod" -> checked[run.call.tgt]

StateAssertions == {"toHaveValue", "toBeChecked", "notToBeChecked"}

\* C4: every selection/checkbox action that returns successfully has asserted,
\* as its last step, that the control holds the requested state.
C4_SelectionAsserts ==
  (run.op \in SelectOps /\ Returned) =>
    /\ log[Len(log)][1] \in StateAssertions
    /\ HoldsRequested

InteractOps ==
  {"fillField", "selectRole", "setCheckbox", "selectContactMethod", "selectCountry",
   "submitForm", "resetForm", "clearAllFields"}

Interactions == {"clear", "fill", "selectOption", "setChecked", "check", "click"}

\* every interaction issued so far follows a visibility assertion on its target
AssertsBeforeInteracting ==
  \A i \in 1..Len(log) :
    log[i][1] \in Interactions =>
      \E j \in 1..(i - 1) : log[j][1] = "toBeVisible" /\ log[j][2] = log[i][2]

WrapsFailure ==
  (Settled /\ fails # <<>>) =>
    /\ Threw
    /\ StartsWith(ret.err, "Failed to ")
    /\ Contains(ret.err, ": " \o ErrStr(LibError(fails[1][1], fails[1][2])))

Swallowed(op, call) ==
  \/ op = "clearAllFields" /\ call = "clear"
  \/ op = "getCurrentFormValues" /\ call = "inputValue"
  \/ op \in {"waitForFormToLoad", "navigateToForm"} /\ call = "toBeHidden"

\* C6 as stated: every failure of a library call inside a helper reaches the
\* caller.
C6_EveryFailurePropagates == (Settled /\ fails # <<>>) => Threw

\* C6, as the code has it: a failure of a library call inside a helper reaches the caller,
\* carrying the library's error, except a failed clear in clearAllFields, a
\* failed inputValue in getCurrentFormValues and a failed toBeHidden in the
\* full waitForFormToLoad, which are ignored.
C6_FailuresPropagateUnlessIgnored ==
  Settled =>
    /\ Threw <=> \E i \in 1..Len(fails) : ~Swallowed(run.op, fails[i][1])
    /\ Threw => Contains(ret.err, LibError(fails[Len(fails)][1], fails[Len(fails)][2]))

C6_Witness ==
  /\ run.op = "fillCompleteForm" /\ Threw
  /\ \E i \in 1..Len(log) : log[i][1] = "toHaveValue"
  /\ fails[1][1] = "setChecked"

\* C7: verifyFieldError and verifyFormSuccess succeed exactly when the message
\* locator is visible and, if an expected message is given, its text contains
\* it; without an expected message visibility alone decides.
C7_VerifyExactly ==
  (run.op \in {"verifyFieldError", "verifyFormSuccess"} /\ Settled) =>
    (Returned <=>
       /\ IsVisible(run.call.tgt)
       /\ run.call.flag => Contains(text[run.call.tgt], run.call.val))

C7_Witness ==
  /\ run.op = "verifyFieldError" /\ Returned
  /\ run.call.flag /\ run.call.val = "a"
  /\ text[run.call.tgt] = "ab"

----------------------------------------------------------------------------
(* Properties of the tests *)

C9_TestOwnsItsPage ==
  /\ stack # <<>> => run.fa = run.test /\ run.fl = run.test
  /\ \A c \in inFlight : c.page = run.test

C9_Witness ==
  /\ run.test = 2
  /\ \E c \in inFlight : c.op = "isVisible" /\ c.page = 2
  /\ Top.fn = "test"

\* the body of the phone-format test was entered
PhoneBodyRan ==
  /\ run.call.name = "phone"
  /\ \E i \in 1..Len(log) : log[i] = <<"isVisible", "phoneInput", "">>

ValidationAssertionFailed ==
  \E i \in 1..Len(fails) : fails[i] = <<"toBeVisible", "phoneFieldError">>

\* C10: the phone-format test is skipped if and only if the phone field is
\* absent from the target form, and with the field present a failed
\* validation assertion makes the test fail rather than skip.
C10_SkippedIffPhoneAbsent ==
  (run.phase = "ended" /\ PhoneBodyRan) =>
    /\ run.outcome = "skipped" <=> mode["phoneInput"] = "absent"
    /\ (mode["phoneInput"] = "ok" /\ ValidationAssertionFailed) => run.outcome = "failed"

\* navigateToForm has just returned to the test that awaited it
NavigateReturned ==
  /\ Len(stack) = 1 /\ Top.fn = "test"
  /\ Top.pc \in {"beforeEach", "navigateToForm"}
  /\ ret # NoRet

FormObserved ==
  \E i \in 1..Len(log) :
    /\ log[i] = <<"toBeVisible", "formContainer", "">>
    /\ \A j \in (i + 1)..Len(log) : log[j][1] = "toBeHidden"

\* C11: navigateToForm (with its waitForFormToLoad) returns successfully only
\* when it has observed the form container visible, waiting for it with the
\* 10000 ms timeout; with the container not visible it fails, so that every
\* statement of a test body runs with the form visible.
C11_FormVisibleWhenLoaded ==
  /\ NavigateReturned =>
       /\ ret.status = "ok" => IsVisible("formContainer") /\ FormObserved
       /\ ~IsVisible("formContainer") => ret.status = "error"
  /\ \A c \in inFlight :
       (c.op = "toBeVisible" /\ c.target = "formContainer") => c.timeout = LoadTimeout
  /\ (stack # <<>> /\ stack[1].fn = "test" /\ stack[1].pc \notin {"new", "beforeEach"}) =>
       IsVisible("formContainer")

C11_Witness ==
  /\ NavigateReturned /\ ret.status = "ok"
  /\ Top.pc = "navigateToForm" /\ Top.idx = 2
  /\ run.test = 2

----------------------------------------------------------------------------
(* Properties of filling, reading and clearing *)

\* the form holds v for key k
HoldsFor(k, v) ==
  IF k = "contactMethod" THEN checked[radioLocator(v)]
  ELSE IF k \in FlagKeys THEN checked[FieldOf(k)] = v
  ELSE value[FieldOf(k)] = v

\* C12: after fillCompleteForm(formData) has returned successfully every
\* field formData provides holds the provided value, also when the value is
\* the empty string and the form held another value before.
C12_ProvidedFieldsHold ==
  (run.op = "fillCompleteForm" /\ Returned) =>
    \A k \in DOMAIN run.call.data : HoldsFor(k, run.call.data[k])

\* fillCompleteForm returned successfully, was given "" for the name, and the
\* name field still holds what it held before
C12_EmptyStringSkipped ==
  /\ run.op = "fillCompleteForm" /\ Returned /\ run.full
  /\ "name" \in DOMAIN run.call.data /\ run.call.data["name"] = ""
  /\ value["nameInput"] = "ab"
  /\ log = <<>>

\* the call the caller completed last
Last == run.hist[Len(run.hist)]

\* getCurrentFormValues has returned right after a fill that succeeded
ReadAfterFill ==
  /\ run.op = "getCurrentFormValues" /\ Returned
  /\ LastOp \in {"fillField", "fillCompleteForm"} /\ Last.status = "ok"

\* the values read agree with the fill on the keys in keys
ReadsBack(keys) ==
  IF LastOp = "fillField"
    THEN \A k \in keys : FieldOf(k) = Last.call.tgt => ret.val[k] = Last.call.val
    ELSE \A k \in keys \cap DOMAIN Last.call.data : ret.val[k] = Last.call.data[k]

\* C13: for every text field and every value v, getCurrentFormValues called
\* right after the field was filled with v, through its fillX helper or
\* through fillCompleteForm, returns v for that field.
C13_FillReadRoundTrip == ReadAfterFill => ReadsBack(TextKeys)

\* the round trip for the fields a fill call was actually issued for
RoundTripWhereFilled ==
  ReadAfterFill =>
    ReadsBack({k \in TextKeys : LastOp = "fillCompleteForm" => Applies(k, Last.call.data)})

\* the values read after fillCompleteForm was given "" for the name still show
\* the name the form held before
C13_EmptyStringNotReadBack ==
  /\ ReadAfterFill /\ LastOp = "fillCompleteForm"
  /\ "name" \in DOMAIN Last.call.data /\ Last.call.data["name"] = ""
  /\ ret.val["name"] = "ab"

----------------------------------------------------------------------------
(* Termination *)

\* C14: every action and verification helper that was called eventually
\* returns or raises, given that the library settles each call within its
\* timeout; no helper issues calls without end.
C14_HelpersTerminate == (run.phase = "called") ~> Settled

C14_Witness ==
  /\ run.op = "clearAllFields" /\ Returned
  /\ Len(fails) = 1 /\ Len(log) = Len(ClearFieldsFull)

----------------------------------------------------------------------------
(* Statelessness of the helper objects *)

\* C15: no helper step and no locator use changes a field of the FormActions
\* or FormLocators object of a test: the page each was built from changes
\* only when beforeEach builds new objects, and every call goes to the page of
\* the object that issued it.
C15_HelperObjectsStateless ==
  [][/\ (run'.fa # run.fa \/ run'.fl # run.fl) => (run.phase = "idle" /\ stack = <<>>)
     /\ \A c \in inFlight' \ inFlight : c.page = IF c.owner = 1 THEN run.fl ELSE run.fa]_vars

C15_Witness ==
  /\ run.test = 2 /\ run.fa = 2 /\ run.fl = 2
  /\ Len(stack) = 3 /\ Top.fn = "selectContactMethod" /\ Top.pc = "toBeChecked"

----------------------------------------------------------------------------
(* Reset *)

\* verifyFormIsEmpty has settled after fillCompleteForm and then resetForm
\* both succeeded
VerifiedAfterReset ==
  /\ run.op = "verifyFormIsEmpty" /\ Settled
  /\ Len(run.hist) = 2
  /\ run.hist[1].op = "fillCompleteForm" /\ run.hist[1].status = "ok"
  /\ run.hist[2].op = "resetForm" /\ run.hist[2].status = "ok"

\* every value getCurrentFormValues reads is '': a field that is not there
\* reads as ''
ReadsEmpty ==
  \A i \in 1..Len(ValueKeys) :
    Attached(ValueKeys[i][2]) => value[ValueKeys[i][2]] = ""

----------------------------------------------------------------------------
(* The race of the loading-state test *)

\* the loading-state test has ended after it started its Promise.race
RaceDecided ==
  /\ run.phase = "ended" /\ run.call.name = "loading"
  /\ \E i \in 1..Len(log) : log[i] = <<"toBeVisible", "loadingIndicator", "">>

\* C17: the loading-state test passes whenever, after submitForm, the success
\* message or the loading indicator is visible within its wait window,
\* whichever of the two expectations settles first; one expectation failing
\* alone does not fail the test.
C17_PassesIfEitherVisible ==
  RaceDecided =>
    ((IsVisible("successMessage") \/ IsVisible("loadingIndicator")) =>
       run.outcome = "passed")

\* the test failed on the loading indicator although the success message is
\* shown within its own window
C17_FailedThoughSuccessShown ==
  /\ RaceDecided /\ run.outcome = "failed"
  /\ IsVisible("successMessage")
  /\ fails # <<>> /\ fails[Len(fails)] = <<"toBeVisible", "loadingIndicator">>

----------------------------------------------------------------------------
(* Order of fillCompleteForm *)

\* the library calls, as <<operation, target>>, of the helper for key k given v
OpsFor(k, v) ==
  LET on(ops, tgt) == [i \in 1..Len(ops) |-> <<ops[i], tgt>>]
  IN  CASE k \in TextKeys -> on(<<"toBeVisible", "clear", "fill", "toHaveValue">>, FieldOf(k))
        [] k = "role" -> on(<<"toBeVisible", "selectOption", "toHaveValue">>, "roleSelect")
        [] k \in FlagKeys ->
             on(<<"toBeVisible", "setChecked", IF v THEN "toBeChecked" ELSE "notToBeChecked">>,
                FieldOf(k))
        [] k = "contactMethod" -> on(<<"toBeVisible", "check", "toBeChecked">>, radioLocator(v))
        [] k = "country" ->
             << <<"toBeVisible", "countryDropdown">>, <<"click", "countryDropdown">>,
                <<"click", "countryOption">> >>

RECURSIVE OpsFrom(_, _, _)
\* the calls of the steps from position i of order on, for the keys formData
\* provides with a value the step's guard accepts
OpsFrom(order, formData, i) ==
  IF i > Len(order) THEN <<>>
  ELSE (IF Applies(order[i], formData)
          THEN OpsFor(order[i], formData[order[i]])
          ELSE <<>>) \o OpsFrom(order, formData, i + 1)

OpsIssued == [i \in 1..Len(log) |-> <<log[i][1], log[i][2]>>]

\* C18: fillCompleteForm applies the provided fields in the fixed order of the
\* method, the helper of a field being called only after the helper of the
\* previous one has returned, and issues no call on a field formData does not
\* provide.
C18_FixedOrderOnlyProvided ==
  run.op = "fillCompleteForm" =>
    LET all == OpsFrom(Order(run.full), run.call.data, 1)
    IN  /\ IsPrefix(OpsIssued, all)
        /\ Returned => OpsIssued = all
        /\ Cardinality(inFlight) <= 1
        /\ \A i \in 1..Len(log) :
             \E k \in DOMAIN run.call.data :
               LET ops == OpsFor(k, run.call.data[k])
               IN  \E j \in 1..Len(ops) : log[i][2] = ops[j][2]

C18_Witness ==
  /\ run.op = "fillCompleteForm" /\ Returned /\ run.full
  /\ run.call.data = [name |-> "ab", role |-> "ab", agreeToTerms |-> TRUE]
  /\ Len(log) = 10

----------------------------------------------------------------------------
(* clearAllFields *)

ClearFields == IF run.full THEN ClearFieldsFull ELSE ClearFieldsSimple

\* C19: clearAllFields never raises; it issues one clear on each field of its
\* list, in the list's order, whether or not an earlier clear failed; and when
\* it has returned, every listed field whose clear did not fail is empty.
C19_ClearAllFieldsBestEffort ==
  run.op = "clearAllFields" =>
    /\ Settled => Returned
    /\ Len(log) <= Len(ClearFields)
    /\ \A i \in 1..Len(log) : log[i] = <<"clear", ClearFields[i], "">>
    /\ Returned =>
         /\ Len(log) = Len(ClearFields)
         /\ \A i \in 1..Len(ClearFields) :
              (\A j \in 1..Len(fails) : fails[j] # <<"clear", ClearFields[i]>>)
                => value[ClearFields[i]] = ""

C19_Witness ==
  /\ run.op = "clearAllFields" /\ Returned /\ run.full
  /\ fails = << <<"clear", "phoneInput">> >>
  /\ Len(run.hist) = 1 /\ Last.op = "fillField" /\ Last.status = "ok"
  /\ Last.call.tgt = "nameInput" /\ Last.call.val = "ab"
  /\ value["nameInput"] = "" /\ value["companyInput"] = ""

----------------------------------------------------------------------------
(* waitForFormToLoad and the loading indicator *)

LoadReturned ==
  /\ run.op \in {"waitForFormToLoad", "navigateToForm"} /\ run.full
  /\ Returned

\* C20: the full waitForFormToLoad returns successfully only after the form
\* container was seen visible and the loading indicator has disappeared; it
\* never returns while the loading indicator is visible.
C20_NotReturnedWhileLoading ==
  LoadReturned =>
    /\ IsVisible("formContainer")
    /\ ~IsVisible("loadingIndicator")

\* the indicator stayed visible, toBeHidden failed, and the method returned
C20_ReturnedWhileLoading ==
  /\ LoadReturned /\ run.op = "waitForFormToLoad"
  /\ IsVisible("formContainer") /\ IsVisible("loadingIndicator")
  /\ fails = << <<"toBeHidden", "loadingIndicator">> >>

----------------------------------------------------------------------------
(* verifyValidationErrors *)

\* the position of the first expected string the text t does not contain, 0
\* when it contains them all
FirstMissing(t, expected) ==
  LET missing == {i \in 1..Len(expected) : ~Contains(t, expected[i])}
  IN  IF missing = {} THEN 0 ELSE CHOOSE i \in missing : \A j \in missing : i <= j

\* C21: verifyValidationErrors succeeds exactly when the error message is
\* visible and its text contains every expected string; with no list or an
\* empty one visibility alone decides; and it fails at the first expected
\* string that is not contained, without looking at the later ones.
C21_VerifyErrorsExactly ==
  (run.op = "verifyValidationErrors" /\ Settled) =>
    LET expected == run.call.data
        t == text["errorMessage"]
        shown == IsVisible("errorMessage")
    IN  /\ Returned <=> (shown /\ (run.call.flag => FirstMissing(t, expected) = 0))
        /\ (~run.call.flag \/ expected = <<>>) => (Returned <=> shown)
        /\ (Threw /\ shown) =>
             /\ Len(log) = 1 + FirstMissing(t, expected)
             /\ log[Len(log)] =
                  <<"toContainText", "errorMessage", expected[FirstMissing(t, expected)]>>
             /\ fails = << <<"toContainText", "errorMessage">> >>

C21_Witness ==
  /\ run.op = "verifyValidationErrors" /\ Threw
  /\ run.call.data = <<"a", "ab">> /\ text["errorMessage"] = "a"
  /\ Len(log) = 3

----------------------------------------------------------------------------
(* verifyFormData *)

\* what the form holds for a field of expectedData: the value of its element,
\* and for contactMethod the method whose radio is checked
FormValue(field) ==
  CASE field \in PageCases -> value[FieldOf(field)]
    [] field = "contactMethod" ->
         IF checked["emailContactRadio"] THEN "email"
         ELSE IF checked["phoneContactRadio"] THEN "phone" ELSE ""

VerifyDataSettled == run.op \in {"verifyFormData", "FormPage_verifyFormData"} /\ Settled

\* C22: verifyFormData, of FormActions and of FormPage alike, succeeds if and
\* only if for every (field, value) entry of expectedData the form holds value
\* for that field, whatever the field's name.
C22_VerifyFormDataExactly ==
  VerifyDataSettled =>
    (Returned <=>
       \A i \in 1..Len(run.call.data) :
         FormValue(run.call.data[i][1]) = run.call.data[i][2])

\* the same for entries of the six fields on a form that has them all
VerifyFormDataOnReadFields ==
  (/\ VerifyDataSettled
   /\ \A i \in 1..Len(run.call.data) :
        run.call.data[i][1] \in PageCases /\ Attached(FieldOf(run.call.data[i][1])))
    => (Returned <=>
          \A i \in 1..Len(run.call.data) :
            FormValue(run.call.data[i][1]) = run.call.data[i][2])

\* FormPage.verifyFormData accepts an entry the form does not hold
C22_UnknownFieldNotCompared ==
  /\ run.op = "FormPage_verifyFormData" /\ Returned
  /\ run.call.data = << <<"contactMethod", "email">> >>
  /\ ~checked["emailContactRadio"] /\ log = <<>>

----------------------------------------------------------------------------
(* TestDataGenerator *)

GeneratedBy(op) == run.phase = "called" /\ run.op = op

\* the keys on which two records differ
DiffKeys(a, b) ==
  {k \in DOMAIN a \cup DOMAIN b : k \notin DOMAIN a \/ k \notin DOMAIN b \/ a[k] # b[k]}

\* C23: getInvalidEmailData, getInvalidPhoneData and getDataWithoutAgreement
\* return a record that differs from getValidFormData() in exactly one field,
\* email, phone and agreeToTerms respectively, which holds the invalid value.
C23_InvalidDataDiffersInOneField ==
  /\ GeneratedBy("getInvalidEmailData") =>
       /\ DiffKeys(ret.val, getValidFormData) = {"email"}
       /\ ret.val.email = "invalid-email-format"
  /\ GeneratedBy("getInvalidPhoneData") =>
       /\ DiffKeys(ret.val, getValidFormData) = {"phone"}
       /\ ret.val.phone = "abc123"
  /\ GeneratedBy("getDataWithoutAgreement") =>
       /\ DiffKeys(ret.val, getValidFormData) = {"agreeToTerms"}
       /\ ret.val.agreeToTerms = FALSE

C23_Witness ==
  /\ GeneratedBy("getInvalidPhoneData")
  /\ Len(Top.data) = 2 /\ "name" \notin DOMAIN Top.data[1]

\* C24: whatever the random draws, the record of getRandomValidData has name,
\* company, role and message from one index in 0..4 of their lists, none of
\* them undefined, a role of AVAILABLE_ROLES, a contactMethod of
\* CONTACT_METHODS and agreeToTerms = true.
C24_RandomDataWellFormed ==
  GeneratedBy("getRandomValidData") =>
    /\ \E i \in 0..4 :
         /\ ret.val.name = At(names, i) /\ ret.val.company = At(companies, i)
         /\ ret.val.role = At(roles, i) /\ ret.val.message = At(messages, i)
    /\ Undefined \notin {ret.val.name, ret.val.company, ret.val.role, ret.val.message}
    /\ ret.val.role \in AVAILABLE_ROLES
    /\ ret.val.contactMethod \in CONTACT_METHODS
    /\ ret.val.agreeToTerms = TRUE

\* the last entry of each list was drawn
C24_Witness ==
  /\ GeneratedBy("getRandomValidData")
  /\ ret.val.name = "Emma Wilson" /\ ret.val.role = "designer"
  /\ ret.val.contactMethod = "phone" /\ ret.val.subscribeNewsletter

\* C27: every call of a generator method returns a new object, and whatever
\* generator calls and changes of the returned objects came before, a call of
\* getValidFormData returns the values of its literal.
C27_FreshRecordEachCall ==
  /\ GeneratedBy("getValidFormData") => ret.val = getValidFormData
  /\ (run.phase = "called" /\ Top.idx # 0) =>
       /\ Top.idx = Len(Top.data) /\ Top.idx = Top.base + 1

C27_Witness ==
  /\ GeneratedBy("getValidFormData")
  /\ Len(Top.data) = 2 /\ Top.idx = 2
  /\ DOMAIN Top.data[1] = DOMAIN getValidFormData \ {"name"}
  /\ Top.data[1].subscribeNewsletter

----------------------------------------------------------------------------
(* A failure inside fillCompleteForm *)

TargetsOf(k, v) == {OpsFor(k, v)[i][2] : i \in DOMAIN OpsFor(k, v)}

Position(order, k) == CHOOSE i \in 1..Len(order) : order[i] = k

\* the provided field whose helper issued the call that failed
FailedKey ==
  CHOOSE k \in DOMAIN run.call.data :
    Applies(k, run.call.data) /\ fails[1][2] \in TargetsOf(k, run.call.data[k])

\* the error the helper of key k raises when the library raises error
HelperError(k, v, error) ==
  CASE k \in TextKeys -> fillFieldError(k, v, error)
    [] k = "role" -> selectRoleError(v, error)
    [] k = "agreeToTerms" -> setCheckboxError("agreement", v, error)
    [] k = "subscribeNewsletter" -> setCheckboxError("newsletter", v, error)
    [] k = "contactMethod" -> selectContactMethodError(v, error)
    [] k = "country" -> error

\* fillCompleteForm raised: the failed call was the last one issued, no later
\* field was touched, and the fields before the failing one hold their values
StopsAtFailure ==
  LET formData == run.call.data
      order == Order(run.full)
  IN  /\ Len(fails) = 1
      /\ IsPrefix(OpsIssued, OpsFrom(order, formData, 1))
      /\ OpsIssued[Len(log)] = fails[1]
      /\ \A k \in DOMAIN formData :
           Applies(k, formData) =>
             /\ Position(order, k) > Position(order, FailedKey) =>
                  \A i \in 1..Len(log) : log[i][2] \notin TargetsOf(k, formData[k])
             /\ Position(order, k) < Position(order, FailedKey) =>
                  HoldsFor(k, formData[k])

FillCompleteFailed == run.op = "fillCompleteForm" /\ Threw

----------------------------------------------------------------------------
(* fillField on a field that is not visible *)

\* fillField is at its visibility check and the field is not visible
VisibilityCheckFails ==
  /\ run.op = "fillField"
  /\ Running("fillField", "toBeVisible") /\ ~IsVisible(Top.tgt)

\* C26: when fillField fails at its visibility check, the call ends there with
\* an error: neither clear nor fill is issued and the field keeps its value.
C26_NoEffectWhenNotVisible ==
  [][VisibilityCheckFails =>
       /\ stack' = <<>> /\ ret'.status = "error"
       /\ log' = log /\ log = << <<"toBeVisible", Top.tgt, "">> >>
       /\ value' = value]_vars

\* the failed call is over and the hidden field holds what it held
C26_Witness ==
  /\ run.op = "fillField" /\ Threw /\ run.hist = <<>>
  /\ fails = << <<"toBeVisible", "nameInput">> >>
  /\ run.call.val = "a" /\ value["nameInput"] = "ab"
  /\ Len(log) = 1

----------------------------------------------------------------------------
(* getCurrentFormValues on a form that lacks a field *)

\* what getCurrentFormValues reports for a control
ReadOf(l) == IF Attached(l) THEN value[l] ELSE ""

\* C28: getCurrentFormValues never raises and returns a record of exactly the
\* keys name, email, phone, message, company, role, a field that cannot be read
\* being reported as ''; so verifyFormIsEmpty succeeds although a field does
\* not exist, when the fields that exist are empty.
C28_ReadNeverRaises ==
  /\ (run.op = "getCurrentFormValues" /\ Settled) =>
       /\ Returned
       /\ DOMAIN ret.val = {"name", "email", "phone", "message", "company", "role"}
       /\ \A i \in 1..Len(ValueKeys) : ret.val[ValueKeys[i][1]] = ReadOf(ValueKeys[i][2])
       /\ Len(log) = Len(ValueKeys)
  /\ (run.op = "verifyFormIsEmpty" /\ Settled
        /\ \A i \in 1..Len(ValueKeys) : ReadOf(ValueKeys[i][2]) = "") => Returned

\* verifyFormIsEmpty succeeded on a form without the phone field
C28_Witness ==
  /\ run.op = "verifyFormIsEmpty" /\ Returned
  /\ mode["phoneInput"] = "absent"
  /\ fails = << <<"inputValue", "phoneInput">> >>

----------------------------------------------------------------------------
(* FormPage.fillCompleteForm and FormActions.fillCompleteForm *)

\* the key of the form data a control belongs to
KeyOfTarget(l) ==
  IF l \in {"emailContactRadio", "phoneContactRadio"} THEN "contactMethod"
  ELSE CHOOSE k \in {"name", "email", "phone", "message", "company", "role",
                     "agreeToTerms", "subscribeNewsletter"} : FieldOf(k) = l

RECURSIVE TouchedFrom(_, _)
\* the fields the calls of lg from position i on operate on, in order, each
\* run of calls on one control counted once
TouchedFrom(lg, i) ==
  IF i > Len(lg) THEN <<>>
  ELSE (IF i > 1 /\ lg[i][2] = lg[i - 1][2] THEN <<>> ELSE <<KeyOfTarget(lg[i][2])>>)
         \o TouchedFrom(lg, i + 1)

Touched(lg) == TouchedFrom(lg, 1)

\* FormPage.fillCompleteForm has settled, called with the record the full
\* FormActions.fillCompleteForm was called with before
BothFilled ==
  /\ run.op = "FormPage_fillCompleteForm" /\ Settled
  /\ Len(run.hist) = 1 /\ Last.op = "fillCompleteForm"
  /\ Last.call.data = run.call.data

\* C29: for every formData, FormPage.fillCompleteForm and the full
\* FormActions.fillCompleteForm operate on the same fields in the same order
\* (name, email, phone, message, company, role, agreement, newsletter, contact
\* method), skipping the same absent or empty ones; where FormActions stops at
\* a field whose check fails, it has gone through the same fields up to there.
C29_SameFieldsSameOrder ==
  BothFilled =>
    /\ IsPrefix(Touched(Last.log), Touched(log))
    /\ Last.status = "ok" => (Returned /\ Touched(Last.log) = Touched(log))
    /\ Returned =>
         Touched(log) = SelectSeq(OrderFull, LAMBDA k : Applies(k, run.call.data))

C29_Witness ==
  /\ BothFilled /\ Returned /\ Last.status = "ok"
  /\ run.call.data = [name |-> "", phone |-> "a", agreeToTerms |-> TRUE,
                      contactMethod |-> "email"]
  /\ Touched(log) = <<"phone", "agreeToTerms", "contactMethod">>

====
